---- MODULE Spec2Model ----
(***************************************************************************)
(* InfoGen: the phone-number and name generators of name_generator.py and   *)
(* the contact-file writer of vcf_generator.py built on them, and the       *)
(* window of main_window.py running the writer on a worker thread.          *)
(*                                                                          *)
(* A Python str is a sequence of Unicode code points, so "138" is           *)
(* <<49, 51, 56>>.  Every random draw of the program (random.choice,        *)
(* random.randint, random.random) is an input of the action that makes it.  *)
(***************************************************************************)
EXTENDS Integers, Sequences, FiniteSets, TLC

VARIABLES
  op,             \* the API call that is running or ran last
  status,         \* "idle", "running", "returned" or "raised"
  prefix,         \* generate_phone_number(s): argument prefix
  carrier,        \* generate_phone_number(s): argument carrier
  phone,          \* what the last generate_phone_number call did
  count,          \* generate_phone_numbers: argument count
  unique,         \* generate_phone_numbers: argument unique
  phone_numbers,  \* generate_phone_numbers: local list phone_numbers
  generated_set,  \* generate_phone_numbers: local set generated_set
  attempts,       \* generate_phone_numbers: local counter attempts
  calls,          \* generate_phone_number calls made by the running batch
  phone_number,   \* get_carrier_name: argument phone_number
  carrier_name,   \* get_carrier_name: returned display name
  num,            \* generate_names: argument num
  gender,         \* generate_names: argument gender
  names,          \* generate_names: local list names
  passes,         \* generate_names: passes of its for loop made so far
  name,           \* what the last make_boy_name or make_girl_name returned;
                  \* create_contact_vcf_entry: argument name
  now,            \* the clock: seconds since midnight
  output_dir_exists,  \* the file system: whether output_dir exists
  disk,           \* the file system: path of each file written under
                  \* output_dir |-> the number of VCARD blocks of its text
  file_text,      \* the text the last successful create_vcf_file wrote
  vcf_entry,      \* create_contact_vcf_entry: returned text
  contacts,       \* generate_contacts: returned list; generate_vcf_files:
                  \* local list contacts
  file_count,         \* generate_vcf_files: argument file_count
  contacts_per_file,  \* generate_vcf_files: argument contacts_per_file
  unique_phones,      \* generate_vcf_files: argument unique_phones
  progress_callback,  \* generate_vcf_files: whether progress_callback is
                      \* supplied
  naming_mode,        \* generate_vcf_files: argument naming_mode
  start_number,       \* generate_vcf_files: argument start_number
  number_format,      \* generate_vcf_files: argument number_format
  timestamp,      \* generate_vcf_files: local timestamp, None while unbound
  file_index,     \* generate_vcf_files: loop variable i
  filepath,       \* generate_vcf_files: local filepath
  pc,             \* generate_vcf_files: the statement of the loop body that
                  \* is next
  created_files,  \* generate_vcf_files: local list created_files
  failed_files,   \* generate_vcf_files: local list failed_files
  trace,          \* the calls the running batch has made so far, in order
  result,         \* generate_vcf_files: returned record
  preview_content,    \* preview_vcf_content: returned text
  statistics,         \* PhoneGenerator.get_statistics: returned record
  generate_vcf_btn,   \* MainWindow: whether generate_vcf_btn is enabled
  progress_bar,       \* MainWindow: progress_bar, visible or not, and its
                      \* value
  vcf_stats_label,    \* MainWindow: what vcf_stats_label shows
  modal,              \* MainWindow: the modal dialog that is open
  vcf_worker_thread,  \* MainWindow: the VCFGeneratorThread created last
  running,            \* the number of VCFGeneratorThread.run() in progress
  signals,            \* signals emitted to the window and not yet handled
  emitted             \* the signals the thread created last has emitted

phoneVars ==
  <<prefix, carrier, phone, count, unique, phone_numbers, generated_set,
    attempts, calls, phone_number, carrier_name>>

nameVars == <<num, gender, names, passes, name>>

vcfArgs ==
  <<file_count, contacts_per_file, unique_phones, progress_callback,
    naming_mode, start_number, number_format>>

vcfLocals ==
  <<timestamp, file_index, filepath, pc, created_files, failed_files>>

vcfVars ==
  <<now, output_dir_exists, disk, file_text, vcf_entry, contacts, vcfArgs,
    vcfLocals, trace, result, preview_content>>

\* the two generators and the file writer
apiVars == <<op, status, phoneVars, nameVars, vcfVars, statistics>>

winVars ==
  <<generate_vcf_btn, progress_bar, vcf_stats_label, modal,
    vcf_worker_thread, running, signals, emitted>>

vars == <<apiVars, winVars>>

(***************************************************************************)
(* Bounds of the model.                                                     *)
(***************************************************************************)
\* counts passed to the batch generators range over -1 .. MaxCount
MaxCount == 2
\* inside a batch random.choice draws the last entry of its list or one of
\* the first MaxPick + 1
MaxPick == 0
\* inside a batch random.randint yields one of the digit streams
\* 0 .. MaxSeed
MaxSeed == 0
\* file_count ranges over 0 .. MaxFiles
MaxFiles == 2

\* the largest file_count the window offers
MaxFileCount == 100
\* the clock reads 11:59:59 when a call starts, and moves on by at most
\* MaxTicks seconds while a batch is written
ClockStart == 12 * 3600 - 1
MaxTicks == 1

(***************************************************************************)
(* Python values.                                                           *)
(***************************************************************************)
\* None, where a str is expected: no str holds a negative code point
None == <<-1>>

\* None as the carrier argument (carrier names are compared whole, so they
\* are kept as TLA+ strings)
NoCarrier == "None"

\* bool(s) of an optional str: None and "" are falsy
Truthy(s) == s # None /\ s # <<>>

\* x in list
In(x, list) == \E i \in 1..Len(list) : list[i] = x

\* str(n) of an int n >= 0: its decimal digits, '0' being code point 48
RECURSIVE Str(_)
Str(n) == IF n < 10 THEN <<48 + n>> ELSE Str(n \div 10) \o <<48 + (n % 10)>>

\* ''.join(parts)
RECURSIVE Join(_)
Join(parts) == IF parts = <<>> THEN <<>> ELSE Head(parts) \o Join(Tail(parts))

\* Take with the slice one character short: s[:n - 1]
Take_OneShort(s, n) == SubSeq(s, 1, IF n - 1 < Len(s) THEN n - 1 ELSE Len(s))

\* s[:n]
Take(s, n) == SubSeq(s, 1, IF n < Len(s) THEN n ELSE Len(s))

\* random.choice(list), pick being the index the generator draws
Choice(list, pick) == list[(pick % Len(list)) + 1]

(***************************************************************************)
(* PhoneGenerator.__init__: the prefix tables.                              *)
(***************************************************************************)
prefixes ==
  <<
    Str(134), Str(135), Str(136), Str(137), Str(138), Str(139),
    Str(150), Str(151), Str(152), Str(157), Str(158), Str(159),
    Str(182), Str(183), Str(184), Str(187), Str(188), Str(195),
    Str(197), Str(198), Str(147), Str(1440), Str(130), Str(131),
    Str(132), Str(145), Str(155), Str(156), Str(166), Str(175),
    Str(176), Str(185), Str(186), Str(133), Str(149), Str(153),
    Str(173), Str(174), Str(177), Str(180), Str(181), Str(189),
    Str(190), Str(191), Str(193), Str(199), Str(170), Str(171),
    Str(162)
  >>

mobile_prefixes ==
  <<
    Str(134), Str(135), Str(136), Str(137), Str(138), Str(139),
    Str(150), Str(151), Str(152), Str(157), Str(158), Str(159),
    Str(182), Str(183), Str(184), Str(187), Str(188), Str(195),
    Str(197), Str(198), Str(147)
  >>

unicom_prefixes ==
  <<
    Str(130), Str(131), Str(132), Str(145), Str(155), Str(156),
    Str(166), Str(175), Str(176), Str(185), Str(186)
  >>

telecom_prefixes ==
  <<
    Str(133), Str(149), Str(153), Str(173), Str(174), Str(177),
    Str(180), Str(181), Str(189), Str(190), Str(191), Str(193),
    Str(199)
  >>

virtual_prefixes ==
  <<
    Str(170), Str(171), Str(162)
  >>

(***************************************************************************)
(* NameGenerator.__init__: the name tables.                                 *)
(***************************************************************************)
xing ==
  <<
    <<36213>>, <<38065>>, <<23385>>, <<26446>>, <<21608>>, <<21556>>, <<37073>>, <<29579>>,
    <<20911>>, <<38472>>, <<35098>>, <<21355>>, <<33931>>, <<27784>>, <<38889>>, <<26472>>,
    <<26417>>, <<31206>>, <<23588>>, <<35768>>, <<20309>>, <<21525>>, <<26045>>, <<24352>>,
    <<23380>>, <<26361>>, <<20005>>, <<21326>>, <<37329>>, <<39759>>, <<38518>>, <<23004>>,
    <<25114>>, <<35874>>, <<37049>>, <<21947>>, <<26575>>, <<27700>>, <<31398>>, <<31456>>,
    <<20113>>, <<33487>>, <<28504>>, <<33883>>, <<22874>>, <<33539>>, <<24429>>, <<37070>>,
    <<40065>>, <<38886>>, <<26124>>, <<39532>>, <<33495>>, <<20964>>, <<33457>>, <<26041>>,
    <<20219>>, <<34945>>, <<26611>>, <<40077>>, <<21490>>, <<21776>>, <<36153>>, <<34203>>,
    <<38647>>, <<36154>>, <<20522>>, <<27748>>, <<28373>>, <<27575>>, <<32599>>, <<27605>>,
    <<37085>>, <<23433>>, <<24120>>, <<20613>>, <<21342>>, <<40784>>, <<20803>>, <<39038>>,
    <<23391>>, <<24179>>, <<40644>>, <<31302>>, <<33831>>, <<23609>>, <<23002>>, <<37045>>,
    <<28251>>, <<27754>>, <<31041>>, <<27611>>, <<29380>>, <<31859>>, <<20239>>, <<25104>>,
    <<25140>>, <<35848>>, <<23435>>, <<33541>>, <<24222>>, <<29066>>, <<32426>>, <<33298>>,
    <<23624>>, <<39033>>, <<31069>>, <<33891>>, <<26753>>, <<26460>>, <<38446>>, <<34013>>,
    <<38389>>, <<23395>>, <<36158>>, <<36335>>, <<23044>>, <<27743>>, <<31461>>, <<39068>>,
    <<37101>>, <<26757>>, <<30427>>, <<26519>>, <<38047>>, <<24464>>, <<37041>>, <<39558>>,
    <<39640>>, <<22799>>, <<34081>>, <<30000>>, <<27146>>, <<32993>>, <<20940>>, <<38669>>,
    <<34398>>, <<19975>>, <<25903>>, <<26607>>, <<31649>>, <<21346>>, <<33707>>, <<26607>>,
    <<25151>>, <<35032>>, <<32554>>, <<35299>>, <<24212>>, <<23447>>, <<19969>>, <<23459>>,
    <<37011>>, <<21333>>, <<26477>>, <<27946>>, <<21253>>, <<35832>>, <<24038>>, <<30707>>,
    <<23828>>, <<21513>>, <<40858>>, <<31243>>, <<23879>>, <<37026>>, <<35060>>, <<38470>>,
    <<33635>>, <<32705>>, <<33600>>, <<20110>>, <<24800>>, <<29956>>, <<26354>>, <<23553>>,
    <<20648>>, <<20210>>, <<20234>>, <<23425>>, <<20167>>, <<29976>>, <<27494>>, <<31526>>,
    <<21016>>, <<26223>>, <<35449>>, <<40857>>, <<21494>>, <<24184>>, <<21496>>, <<40654>>,
    <<28325>>, <<21360>>, <<24576>>, <<33970>>, <<37040>>, <<20174>>, <<32034>>, <<36182>>,
    <<21331>>, <<23648>>, <<27744>>, <<20052>>, <<32997>>, <<38395>>, <<33688>>, <<32735>>,
    <<35885>>, <<36129>>, <<21171>>, <<36868>>, <<23020>>, <<30003>>, <<25206>>, <<22581>>,
    <<20873>>, <<23472>>, <<38605>>, <<26705>>, <<23551>>, <<36890>>, <<29141>>, <<28006>>,
    <<23578>>, <<20892>>, <<28201>>, <<21035>>, <<24196>>, <<26191>>, <<26612>>, <<30655>>,
    <<38414>>, <<36830>>, <<20064>>, <<23481>>, <<21521>>, <<21476>>, <<26131>>, <<24278>>,
    <<24254>>, <<32456>>, <<27493>>, <<37117>>, <<32831>>, <<28385>>, <<24344>>, <<21281>>,
    <<22269>>, <<25991>>, <<23495>>, <<24191>>, <<31108>>, <<38425>>, <<19996>>, <<27431>>,
    <<21033>>, <<24072>>, <<24041>>, <<32834>>, <<20851>>, <<33606>>, <<32418>>, <<28216>>,
    <<31482>>, <<21496, 39532>>, <<19978, 23448>>, <<27431, 38451>>, <<22799, 20399>>, <<35832, 33883>>, <<19996, 26041>>, <<36203, 36830>>,
    <<30343, 29995>>, <<23561, 36831>>, <<20844, 32650>>, <<28601, 21488>>, <<20844, 20918>>, <<23447, 25919>>, <<28654, 38451>>, <<28147, 20110>>,
    <<21333, 20110>>, <<22826, 21460>>, <<30003, 23648>>, <<20844, 23385>>, <<20210, 23385>>, <<36713, 36757>>, <<20196, 29392>>, <<23431, 25991>>,
    <<38271, 23385>>, <<24917, 23481>>, <<21496, 24466>>, <<21496, 31354>>, <<25299, 25300>>
  >>

boy2 ==
  <<
    <<29020, 27915>>, <<38632, 27901>>, <<36234, 27901>>, <<20043, 29577>>, <<38182, 31243>>,
    <<20462, 26480>>, <<28904, 20255>>, <<23572, 26364>>, <<31435, 36745>>, <<33268, 36828>>,
    <<22825, 24605>>, <<21451, 32511>>, <<32874, 20581>>, <<20462, 27905>>, <<24179, 28789>>,
    <<28304, 26234>>, <<28904, 21326>>, <<25391, 23478>>, <<36234, 24428>>, <<23376, 36713>>,
    <<20255, 23480>>, <<26187, 40527>>, <<35269, 26494>>, <<28023, 20134>>, <<38632, 29645>>,
    <<28009, 23431>>, <<22025, 29081>>, <<24535, 27901>>, <<33489, 21338>>, <<24565, 27874>>,
    <<23803, 29081>>, <<20426, 39536>>, <<32874, 23637>>, <<21335, 26494>>, <<40654, 26133>>,
    <<35895, 27874>>, <<20957, 28023>>, <<38742, 26131>>, <<28170, 24605>>, <<29020, 31098>>,
    <<20048, 39545>>, <<39118, 21326>>, <<30591, 28170>>, <<21338, 36229>>, <<22825, 30922>>,
    <<22812, 30333>>, <<21021, 26228>>, <<29822, 29788>>, <<40527, 39134>>, <<24344, 25991>>,
    <<20255, 27901>>, <<36814, 26494>>, <<38632, 27901>>, <<30333, 26131>>, <<36828, 33322>>,
    <<26195, 21880>>, <<26234, 23480>>, <<26195, 21338>>, <<38742, 29738>>, <<21313, 20843>>,
    <<21531, 28009>>, <<32461, 36745>>, <<22825, 24503>>, <<21322, 23665>>, <<19968, 27743>>,
    <<30355, 36713>>, <<23376, 40664>>, <<38738, 23506>>, <<38382, 31584>>, <<26093, 23591>>,
    <<20919, 20043>>, <<22825, 23431>>, <<27491, 35946>>, <<25991, 21338>>, <<26126, 36745>>,
    <<23376, 39582>>, <<28789, 31481>>, <<19977, 24503>>, <<36830, 34382>>, <<21313, 19977>>,
    <<22825, 24029>>, <<19968, 24503>>, <<20005, 38738>>, <<25806, 33485>>, <<24605, 36828>>,
    <<22025, 25087>>, <<40511, 29002>>, <<26207, 30591>>, <<40511, 28059>>, <<23396, 39118>>,
    <<38738, 25991>>, <<28009, 28982>>, <<26126, 26480>>, <<33509, 39118>>, <<24191, 23665>>,
    <<33509, 20043>>, <<28009, 38417>>, <<21335, 39118>>, <<28009, 36713>>, <<21338, 28059>>,
    <<28904, 38678>>, <<22825, 20305>>, <<21322, 38634>>, <<25991, 36713>>, <<26126, 36713>>,
    <<40527, 29002>>, <<27803, 23665>>, <<36947, 22825>>, <<21315, 31609>>, <<36828, 26395>>,
    <<20056, 39118>>, <<36947, 20043>>, <<20056, 20113>>, <<22825, 25234>>, <<22763, 33831>>,
    <<25991, 40857>>, <<19968, 40483>>, <<21322, 20185>>, <<36828, 38155>>, <<20803, 27491>>,
    <<26029, 31179>>, <<36828, 23665>>, <<39134, 25196>>, <<19968, 31505>>, <<22825, 38382>>,
    <<28009, 22825>>, <<27815, 28023>>, <<23433, 24247>>, <<23433, 24179>>, <<23433, 28982>>,
    <<23433, 26191>>, <<23433, 23452>>, <<23433, 24535>>, <<27874, 40511>>, <<21338, 26126>>,
    <<21338, 38597>>, <<21338, 26131>>, <<21338, 36828>>, <<25165, 21746>>, <<25165, 20426>>,
    <<25104, 21644>>, <<25215, 23433>>, <<25215, 24179>>, <<25215, 23459>>, <<25215, 20801>>,
    <<25215, 27901>>, <<25215, 24535>>, <<39134, 34382>>, <<39134, 40857>>, <<39134, 32701>>,
    <<28085, 29030>>, <<26122, 33485>>, <<26122, 31354>>, <<26122, 28982>>, <<26122, 22825>>,
    <<23439, 36798>>, <<23439, 24698>>, <<26223, 36745>>, <<26223, 26126>>, <<26223, 23665>>,
    <<20048, 27744>>, <<22825, 36920>>, <<20255, 24535>>, <<25991, 23459>>, <<25991, 24422>>,
    <<21521, 26216>>, <<21521, 38451>>, <<26143, 38417>>, <<38451, 27874>>, <<36920, 20185>>,
    <<36920, 26126>>, <<27491, 22855>>, <<23376, 29788>>, <<29614, 28059>>, <<24237, 38678>>,
    <<24344, 26234>>, <<21697, 24029>>, <<38064, 23480>>, <<23376, 23576>>, <<28070, 26970>>,
    <<20803, 20113>>, <<26480, 24344>>, <<26480, 26848>>, <<26234, 35821>>, <<32461, 33509>>,
    <<36132, 26435>>, <<31161, 21746>>, <<32426, 24503>>, <<36713, 20891>>, <<26976, 20305>>,
    <<40511, 21326>>, <<23803, 33713>>, <<35029, 38892>>, <<23506, 28142>>, <<28904, 33509>>,
    <<30021, 23389>>, <<38632, 27888>>, <<32461, 33509>>, <<24198, 38892>>, <<28009, 24917>>,
    <<24681, 26216>>, <<20305, 26216>>, <<32752, 20426>>, <<32874, 38125>>, <<29788, 30591>>,
    <<24212, 27888>>, <<20026, 22478>>, <<28843, 26480>>, <<31455, 38155>>, <<20134, 38901>>,
    <<33509, 26480>>, <<33322, 33487>>, <<20426, 24314>>, <<29614, 38155>>, <<26196, 33487>>,
    <<26726, 21531>>, <<20449, 29002>>, <<30410, 27491>>, <<24800, 22378>>, <<28851, 22478>>,
    <<24029, 20581>>, <<29002, 21338>>, <<28698, 24378>>, <<20134, 20581>>, <<21331, 36920>>,
    <<20210, 26234>>, <<26093, 26611>>, <<26131, 25196>>, <<28009, 28156>>, <<33509, 26143>>,
    <<20070, 28070>>, <<25991, 21338>>, <<22307, 38678>>, <<28641, 28201>>, <<29983, 26379>>,
    <<27704, 28070>>, <<28201, 27888>>, <<35328, 20305>>, <<20048, 20961>>, <<22343, 35821>>,
    <<21331, 38182>>, <<28828, 27901>>, <<22869, 36784>>, <<38901, 29081>>, <<27719, 28070>>,
    <<28070, 24237>>, <<20255, 20426>>, <<31435, 22307>>, <<19996, 23376>>, <<36713, 23439>>,
    <<21746, 32874>>, <<24237, 33485>>, <<20142, 28059>>, <<26494, 28165>>, <<32461, 26657>>,
    <<23803, 29081>>, <<31435, 35802>>, <<24344, 25991>>, <<29088, 24420>>, <<40511, 29002>>,
    <<21746, 28698>>, <<21338, 28059>>, <<20255, 27901>>, <<29020, 22478>>, <<40548, 36713>>,
    <<26122, 22825>>, <<24605, 32874>>, <<23637, 40527>>, <<31505, 24858>>, <<24535, 24378>>,
    <<28843, 26126>>, <<38634, 26494>>, <<24605, 28304>>, <<26234, 28170>>, <<24605, 28156>>,
    <<26195, 21880>>, <<22825, 23431>>, <<28009, 28982>>, <<25991, 36713>>, <<40557, 27915>>,
    <<25391, 23478>>, <<20048, 39545>>, <<26195, 21338>>, <<25991, 21338>>, <<26122, 28977>>,
    <<31435, 26524>>, <<37329, 37995>>, <<38182, 31243>>, <<22025, 29081>>, <<40527, 39134>>,
    <<23376, 40664>>, <<24605, 36828>>, <<28009, 36713>>, <<35821, 22530>>, <<32874, 20581>>,
    <<28814, 24428>>, <<23376, 39582>>, <<21531, 28009>>, <<21338, 36229>>, <<26122, 24378>>,
    <<37995, 30922>>, <<26187, 40527>>, <<38632, 27901>>, <<24344, 25991>>, <<29822, 29788>>,
    <<37084, 22372>>, <<21746, 32701>>, <<24847, 33268>>, <<29822, 38742>>, <<26131, 29734>>,
    <<20809, 27982>>, <<29572, 22869>>, <<39582, 23591>>, <<28165, 22025>>, <<20919, 30591>>,
    <<27704, 20016>>, <<22829, 38182>>, <<36784, 21746>>, <<25215, 39068>>, <<20064, 20955>>,
    <<22535, 25991>>, <<40527, 20113>>, <<21326, 33538>>, <<27704, 20197>>, <<28558, 28227>>,
    <<24247, 20271>>, <<29577, 38892>>, <<20113, 38662>>, <<38632, 20271>>, <<21451, 20581>>,
    <<32500, 23792>>, <<27834, 35465>>, <<23433, 38517>>, <<21531, 30355>>, <<24535, 21191>>,
    <<33538, 26448>>, <<36816, 26480>>, <<33489, 21338>>, <<20339, 28814>>, <<40511, 26376>>,
    <<21152, 31572>>, <<28059, 21331>>, <<24247, 39034>>, <<20975, 23450>>, <<22478, 21487>>,
    <<19990, 30746>>, <<21338, 33391>>, <<20426, 23431>>, <<30591, 20070>>, <<27859, 20339>>,
    <<20070, 40483>>, <<36745, 37995>>, <<35821, 26234>>, <<33402, 26234>>, <<24605, 28085>>,
    <<21576, 23706>>, <<22825, 39568>>, <<32752, 30591>>, <<21746, 28059>>, <<20975, 38662>>,
    <<21531, 30355>>, <<35328, 38476>>, <<28009, 24535>>, <<21191, 31520>>, <<29614, 32724>>,
    <<24535, 23431>>, <<38596, 27994>>, <<31062, 24344>>, <<23439, 39074>>, <<38632, 36784>>,
    <<35799, 39074>>
  >>

boy1 ==
  <<
    <<23431>>, <<32724>>, <<39134>>, <<38596>>, <<24069>>, <<28059>>, <<24378>>, <<25996>>,
    <<26122>>, <<20255>>, <<27901>>, <<23792>>, <<21338>>, <<24503>>, <<33635>>, <<36745>>,
    <<20426>>, <<24535>>, <<21191>>, <<29738>>, <<26480>>, <<27915>>, <<29790>>, <<22855>>,
    <<40511>>, <<28009>>, <<23439>>, <<21326>>, <<19996>>, <<20809>>, <<36784>>, <<20016>>,
    <<26635>>, <<26124>>, <<26379>>, <<22362>>, <<26234>>, <<32874>>, <<20142>>, <<27491>>,
    <<26126>>, <<35802>>, <<27704>>, <<32852>>, <<29788>>, <<38647>>, <<23041>>, <<25935>>,
    <<20048>>, <<20449>>, <<26575>>, <<20339>>, <<26187>>, <<32946>>, <<31435>>, <<31077>>,
    <<23398>>, <<35946>>, <<20161>>, <<21451>>
  >>

girl2 ==
  <<
    <<32043, 33841>>, <<32043, 38684>>, <<32043, 33777>>, <<32043, 34013>>, <<32043, 32736>>,
    <<32043, 23433>>, <<33463, 23481>>, <<33463, 24039>>, <<33463, 21321>>, <<20043, 26691>>,
    <<20803, 38684>>, <<35821, 38634>>, <<35821, 33993>>, <<35821, 29748>>, <<35821, 33433>>,
    <<35821, 34678>>, <<38632, 26757>>, <<38632, 33714>>, <<38632, 20848>>, <<21448, 33761>>,
    <<26144, 33841>>, <<26144, 23433>>, <<24518, 38634>>, <<38597, 24420>>, <<38634, 29814>>,
    <<38634, 21321>>, <<26195, 22799>>, <<21521, 26790>>, <<39321, 33841>>, <<39321, 23706>>,
    <<24796, 38634>>, <<24605, 33777>>, <<27700, 29814>>, <<35799, 26691>>, <<23665, 33761>>,
    <<33509, 33777>>, <<38738, 26364>>, <<21315, 26580>>, <<32494, 26757>>, <<20957, 38593>>,
    <<20957, 23433>>, <<22937, 20043>>, <<20940, 27874>>, <<23492, 29748>>, <<28085, 26131>>,
    <<28085, 33777>>, <<21547, 28895>>, <<26364, 20908>>, <<28789, 29642>>, <<26144, 33761>>,
    <<26131, 30495>>, <<23567, 33841>>, <<24604, 21335>>, <<20070, 29814>>, <<24917, 26228>>,
    <<21322, 28895>>, <<32736, 26691>>, <<21521, 30495>>, <<26195, 29814>>, <<39321, 33777>>,
    <<20961, 38684>>, <<26195, 38684>>, <<33463, 34678>>, <<20043, 20113>>, <<23492, 32736>>,
    <<28085, 33761>>, <<24565, 34183>>, <<28789, 20961>>, <<20912, 22799>>, <<32494, 26228>>,
    <<30887, 29748>>, <<20197, 23506>>, <<26790, 32510>>, <<31166, 38675>>, <<33853, 26580>>,
    <<24684, 26646>>, <<20197, 34013>>, <<26143, 26970>>, <<26202, 26848>>, <<20048, 34183>>,
    <<20113, 27603>>, <<38745, 26112>>, <<27931, 19968>>, <<39336, 38597>>, <<33418, 26132>>,
    <<27792, 39068>>, <<28165, 22696>>, <<24847, 32673>>, <<31166, 20957>>, <<40654, 24605>>,
    <<38182, 24796>>, <<21271, 33545>>, <<28165, 31601>>, <<38738, 29605>>, <<21487, 26143>>,
    <<33437, 24684>>, <<26133, 29980>>, <<31166, 23113>>, <<24917, 21807>>, <<21807, 20846>>,
    <<27462, 19968>>, <<20339, 24565>>, <<26202, 26592>>, <<21021, 24681>>, <<20048, 26199>>,
    <<20339, 35269>>, <<21021, 35821>>, <<33487, 37057>>, <<30693, 23451>>, <<24847, 26244>>,
    <<23433, 35834>>, <<21487, 22799>>, <<20104, 24076>>, <<26408, 20873>>, <<20248, 28216>>,
    <<20234, 20381>>, <<20542, 28165>>, <<24515, 27462>>, <<39062, 24681>>, <<26970, 29814>>,
    <<22914, 19968>>, <<27792, 24515>>, <<23376, 27803>>, <<23159, 31168>>, <<33459, 20957>>,
    <<27931, 39068>>, <<24605, 29840>>, <<37089, 19968>>, <<21521, 22937>>, <<24819, 33993>>,
    <<24453, 33275>>, <<23005, 32654>>, <<33993, 26611>>, <<28330, 39068>>, <<29854, 35799>>,
    <<30693, 38886>>, <<20043, 23506>>, <<33993, 29642>>, <<23572, 27603>>, <<35799, 30591>>,
    <<35799, 38064>>, <<24565, 27728>>, <<24684, 25087>>, <<21644, 20329>>, <<33426, 21487>>,
    <<38742, 26611>>, <<27427, 30887>>, <<23143, 23195>>, <<33464, 38686>>, <<23376, 33559>>,
    <<26790, 29747>>, <<29747, 23039>>, <<23492, 24433>>, <<33509, 23267>>, <<33402, 29634>>,
    <<32032, 29747>>, <<28113, 20113>>, <<33564, 28085>>, <<33721, 20113>>, <<28165, 23195>>,
    <<24605, 24609>>, <<24453, 26202>>, <<32494, 26228>>, <<22799, 23159>>, <<29081, 29822>>,
    <<29577, 29645>>, <<35821, 24420>>, <<32874, 24609>>, <<21892, 34122>>, <<33728, 26592>>,
    <<39062, 33778>>, <<21531, 38632>>, <<26611, 22914>>, <<27427, 38745>>, <<24609, 23706>>,
    <<33459, 30591>>, <<35821, 28113>>, <<24935, 20594>>, <<21322, 27088>>, <<23077, 33778>>,
    <<20313, 33464>>, <<23113, 21535>>, <<23194, 40511>>, <<21548, 34183>>, <<24684, 25087>>,
    <<29747, 23068>>, <<24605, 22948>>, <<21452, 33464>>, <<26771, 27427>>, <<20048, 24039>>,
    <<23425, 25935>>, <<36920, 24684>>, <<23159, 39068>>, <<32701, 33721>>, <<26364, 28330>>,
    <<24605, 29838>>, <<26790, 28113>>, <<26144, 22025>>, <<22825, 20134>>, <<26144, 20957>>,
    <<26342, 34183>>, <<27889, 31098>>, <<33395, 34122>>, <<22721, 29002>>, <<24515, 24609>>,
    <<33545, 28085>>, <<29081, 26580>>, <<29605, 33433>>, <<20506, 30495>>, <<38597, 24800>>,
    <<21315, 32701>>, <<24605, 38597>>, <<24076, 26592>>, <<36784, 26586>>, <<20134, 27225>>,
    <<20234, 26691>>, <<21335, 26586>>, <<34121, 31036>>, <<27225, 32654>>, <<23451, 26708>>,
    <<30361, 24684>>, <<38182, 33418>>, <<26624, 33804>>, <<20134, 25912>>, <<30361, 23425>>,
    <<33298, 28147>>, <<20197, 33909>>, <<20234, 28233>>, <<21496, 32431>>, <<31258, 20140>>,
    <<22856, 31513>>, <<35199, 26848>>, <<20170, 23433>>, <<26191, 20052>>, <<33298, 28982>>,
    <<24917, 20542>>, <<29590, 40482>>, <<24605, 33694>>, <<32043, 33545>>, <<29649, 29738>>,
    <<20873, 23780>>, <<20957, 21021>>, <<21335, 23267>>, <<30693, 28540>>, <<22869, 21271>>,
    <<26705, 23425>>, <<31166, 33545>>, <<26133, 35328>>, <<24565, 19968>>, <<24076, 38597>>,
    <<20234, 35834>>, <<23113, 26592>>, <<23681, 31319>>, <<33487, 37221>>, <<35799, 26045>>,
    <<22768, 31513>>, <<33418, 28548>>, <<26792, 29634>>, <<26206, 24742>>, <<33454, 26578>>,
    <<21335, 26143>>, <<33505, 27819>>, <<40575, 32491>>, <<26970, 22856>>, <<33418, 20955>>,
    <<23113, 23425>>, <<23433, 31166>>, <<33298, 35328>>, <<33454, 29814>>, <<33402, 28085>>,
    <<24684, 38632>>, <<28165, 39068>>, <<20052, 20202>>, <<24188, 27781>>, <<31616, 24515>>,
    <<23425, 24076>>, <<23143, 24684>>, <<40654, 24565>>, <<28789, 28156>>, <<21547, 21375>>,
    <<20846, 34398>>, <<32536, 29662>>, <<20381, 33721>>, <<29605, 20912>>, <<35895, 26771>>,
    <<21335, 33418>>, <<31601, 33589>>, <<29980, 20134>>, <<20339, 30693>>, <<24796, 29662>>,
    <<24796, 28789>>, <<20658, 26228>>, <<33509, 29756>>, <<26228, 23706>>, <<35799, 28103>>,
    <<35821, 20848>>, <<20658, 40836>>, <<30693, 34183>>, <<26195, 27728>>, <<33804, 30693>>,
    <<21547, 34003>>, <<23433, 20873>>, <<26771, 32043>>, <<29831, 30693>>, <<20912, 26228>>,
    <<27728, 26771>>, <<38745, 33509>>, <<35799, 20113>>, <<32043, 30693>>, <<32043, 19997>>,
    <<35269, 29980>>, <<22869, 33418>>, <<20521, 30693>>, <<31505, 29662>>, <<19975, 23005>>,
    <<21021, 29814>>, <<22925, 20381>>, <<30887, 24076>>, <<26195, 34003>>, <<20873, 23047>>,
    <<31505, 40836>>, <<20197, 20846>>, <<20846, 31601>>, <<38632, 29999>>, <<22948, 21326>>,
    <<20912, 33993>>, <<27777, 33993>>, <<19975, 22869>>, <<34398, 20848>>, <<38745, 31515>>,
    <<23217, 38597>>, <<40667, 32511>>, <<27700, 38745>>, <<27700, 22925>>, <<35821, 34122>>,
    <<27427, 33993>>, <<22937, 39336>>, <<40836, 33993>>, <<32043, 33678>>, <<23143, 29747>>,
    <<29980, 26228>>, <<38745, 33433>>, <<24684, 23075>>, <<26195, 20521>>, <<29081, 33841>>,
    <<20873, 28165>>, <<27462, 29788>>, <<40667, 39062>>, <<23143, 33463>>, <<22999, 26805>>,
    <<22799, 33993>>, <<33778, 24742>>, <<20381, 40836>>, <<23547, 21452>>
  >>

girl1 ==
  <<
    <<32654>>, <<23068>>, <<31168>>, <<38639>>, <<34174>>, <<27905>>, <<24605>>, <<24935>>,
    <<24515>>, <<28085>>, <<38745>>, <<33521>>, <<26195>>, <<29747>>, <<29642>>, <<33673>>,
    <<20339>>, <<23159>>, <<29840>>, <<26216>>, <<23433>>, <<21253>>, <<36125>>, <<20912>>,
    <<34003>>, <<29634>>, <<26575>>, <<29747>>, <<33778>>, <<24609>>, <<23068>>, <<24515>>,
    <<27905>>, <<26771>>, <<29814>>, <<29642>>, <<33406>>, <<35799>>, <<29840>>, <<20521>>,
    <<33487>>, <<38639>>, <<23143>>, <<31168>>, <<24935>>, <<24420>>, <<23195>>, <<32654>>,
    <<26230>>, <<29738>>, <<20113>>, <<33805>>, <<34174>>, <<33673>>, <<33721>>, <<34183>>,
    <<26976>>, <<26970>>, <<20339>>, <<29245>>, <<21331>>, <<26684>>, <<25996>>, <<32701>>,
    <<33564>>, <<23159>>, <<29734>>, <<32494>>, <<29141>>, <<24352>>, <<38738>>, <<32418>>,
    <<32736>>, <<24070>>, <<31163>>, <<33714>>, <<23452>>, <<22253>>, <<20908>>, <<38684>>
  >>

(***************************************************************************)
(* PhoneGenerator.generate_phone_number                                     *)
(***************************************************************************)
\* length of a phone number
PhoneLen == 11

\* random.randint(0, 9)
Digits == 0..9

\* the digits random.randint(0, 9) yields on successive draws: stream `seed`
\* starts at seed + 1 and counts upwards through Digits
DigitStream(seed) == [i \in 1..PhoneLen |-> (seed + i) % Cardinality(Digits)]

\* the random draws of one call: the index random.choice picks and the
\* digits random.randint yields
Draws(picks, seeds) == [pick : picks, digits : {DigitStream(s) : s \in seeds}]

\* ChosenPrefix with the carrier consulted before the prefix argument
ChosenPrefix_CarrierFirst(p, c, pick) ==
  IF c = "mobile" THEN Choice(mobile_prefixes, pick)
  ELSE IF c = "unicom" THEN Choice(unicom_prefixes, pick)
  ELSE IF c = "telecom" THEN Choice(telecom_prefixes, pick)
  ELSE IF c = "virtual" THEN Choice(virtual_prefixes, pick)
  ELSE IF Truthy(p) THEN p
  ELSE Choice(prefixes, pick)

\* ChosenPrefix with every carrier drawing from the full list
ChosenPrefix_FullList(p, c, pick) ==
  IF Truthy(p) THEN p ELSE Choice(prefixes, pick)

\* the prefix the call settles on
ChosenPrefix(p, c, pick) ==
  IF Truthy(p) THEN p
  ELSE IF c = "mobile" THEN Choice(mobile_prefixes, pick)
  ELSE IF c = "unicom" THEN Choice(unicom_prefixes, pick)
  ELSE IF c = "telecom" THEN Choice(telecom_prefixes, pick)
  ELSE IF c = "virtual" THEN Choice(virtual_prefixes, pick)
  ELSE Choice(prefixes, pick)

\* RemainingDigits as the comment of the source has it: always the last 8
RemainingDigits_LastEight(chosen_prefix) == PhoneLen - Len(Str(138))

\* 11 - len(chosen_prefix)
RemainingDigits(chosen_prefix) == PhoneLen - Len(chosen_prefix)

\* ''.join([str(random.randint(0, 9)) for _ in range(remaining_digits)])
RandomSuffix(remaining_digits, digits) ==
  Join([i \in 1..remaining_digits |-> Str(digits[i])])

\* PrefixRejected checking the length of the prefix instead of the list
PrefixRejected_ByLength(p) == Truthy(p) /\ Len(p) \notin {3, 4}

\* a supplied prefix must be in self.prefixes, else ValueError
PrefixRejected(p) == Truthy(p) /\ ~In(p, prefixes)

generate_phone_number(p, c, rnd) ==
  IF PrefixRejected(p)
  THEN [raised |-> TRUE, value |-> <<>>]
  ELSE LET chosen_prefix == ChosenPrefix(p, c, rnd.pick)
           random_suffix ==
             RandomSuffix(RemainingDigits(chosen_prefix), rnd.digits)
       IN  [raised |-> FALSE, value |-> chosen_prefix \o random_suffix]

(***************************************************************************)
(* PhoneGenerator.get_statistics: the sizes of the five lists.              *)
(***************************************************************************)
get_statistics ==
  [total |-> Len(prefixes),
   mobile |-> Len(mobile_prefixes),
   unicom |-> Len(unicom_prefixes),
   telecom |-> Len(telecom_prefixes),
   virtual |-> Len(virtual_prefixes),
   supported |-> prefixes]

(***************************************************************************)
(* PhoneGenerator.get_carrier_name                                          *)
(***************************************************************************)
Unknown == <<26410, 30693>>
UnknownCarrier == <<26410, 30693, 36816, 33829, 21830>>
ChinaMobile == <<20013, 22269, 31227, 21160>>
ChinaUnicom == <<20013, 22269, 32852, 36890>>
ChinaTelecom == <<20013, 22269, 30005, 20449>>
VirtualOperator == <<34394, 25311, 36816, 33829, 21830>>

\* get_carrier_name matching the 4-character data-card prefix as well
get_carrier_name_LongPrefix(number) ==
  IF ~Truthy(number) \/ Len(number) < 3 THEN Unknown
  ELSE LET p == SubSeq(number, 1, 3)
       IN  IF In(p, mobile_prefixes) \/ Take(number, 4) = Str(1440)
           THEN ChinaMobile
           ELSE IF In(p, unicom_prefixes) THEN ChinaUnicom
           ELSE IF In(p, telecom_prefixes) THEN ChinaTelecom
           ELSE IF In(p, virtual_prefixes) THEN VirtualOperator
           ELSE UnknownCarrier

\* get_carrier_name without the branch of the virtual operators
get_carrier_name_NoVirtual(number) ==
  IF ~Truthy(number) \/ Len(number) < 3 THEN Unknown
  ELSE LET p == SubSeq(number, 1, 3)
       IN  IF In(p, mobile_prefixes) THEN ChinaMobile
           ELSE IF In(p, unicom_prefixes) THEN ChinaUnicom
           ELSE IF In(p, telecom_prefixes) THEN ChinaTelecom
           ELSE UnknownCarrier

get_carrier_name(number) ==
  IF ~Truthy(number) \/ Len(number) < 3 THEN Unknown
  ELSE LET p == Take(number, 3)
       IN  IF In(p, mobile_prefixes) THEN ChinaMobile
           ELSE IF In(p, unicom_prefixes) THEN ChinaUnicom
           ELSE IF In(p, telecom_prefixes) THEN ChinaTelecom
           ELSE IF In(p, virtual_prefixes) THEN VirtualOperator
           ELSE UnknownCarrier

(***************************************************************************)
(* NameGenerator.make_boy_name, make_girl_name, generate_names              *)
(***************************************************************************)
\* random.random() < 0.7, random.random() being u hundredths
DoubleName(u) == u < 70

\* the random draws of one make_*_name call: the index of the surname, the
\* value of random.random() in hundredths, the index of the given name
NameDraws(firsts, seconds) ==
  [first : firsts, u : {0, 69, 70, 99}, second : seconds]

make_boy_name(rnd) ==
  LET first == Choice(xing, rnd.first)
      second == IF DoubleName(rnd.u) THEN Choice(boy2, rnd.second)
                ELSE Choice(boy1, rnd.second)
  IN  first \o second

make_girl_name(rnd) ==
  LET first == Choice(xing, rnd.first)
      second == IF DoubleName(rnd.u) THEN Choice(girl2, rnd.second)
                ELSE Choice(girl1, rnd.second)
  IN  first \o second

\* MorePasses with one pass too many
MorePasses_OneMore(done, n) == done <= n

\* for _ in range(num): another pass is due after `done` passes
MorePasses(done, n) == done < n

\* the body of the for loop of generate_names: names after one more pass,
\* coin being random.randint(1, 2)
AppendName(list, g, coin, rnd) ==
  IF g = "boy" THEN Append(list, make_boy_name(rnd))
  ELSE IF g = "girl" THEN Append(list, make_girl_name(rnd))
  ELSE IF g = "all"
       THEN IF coin = 1 THEN Append(list, make_boy_name(rnd))
            ELSE Append(list, make_girl_name(rnd))
  ELSE list

(***************************************************************************)
(* PhoneGenerator.generate_phone_numbers: the retry cap and the body of the *)
(* while loop.                                                              *)
(***************************************************************************)
\* MaxAttempts with one attempt too many
MaxAttempts_OneMore(n) == n * 10 + 1

\* max_attempts = count * 10
MaxAttempts(n) == n * 10

\* while len(phone_numbers) < count and attempts < max_attempts
LoopCondition(list, n, tries) == Len(list) < n /\ tries < MaxAttempts(n)

\* generated_set = set() if unique else None
NoSet == {None}

\* Collect without generated_set.add(phone)
Collect_NotRemembered(list, seen, number, u) ==
  IF u /\ seen # {None}
  THEN IF number \notin seen
       THEN [list |-> Append(list, number), seen |-> seen]
       ELSE [list |-> list, seen |-> seen]
  ELSE [list |-> Append(list, number), seen |-> seen]

\* Collect discarding repeated numbers whatever `unique` says
Collect_AlwaysUnique(list, seen, number, u) ==
  IF In(number, list)
  THEN [list |-> list, seen |-> seen]
  ELSE [list |-> Append(list, number),
        seen |-> IF seen = {None} THEN seen ELSE seen \cup {number}]

\* Collect putting a new number in front of the list
Collect_Prepends(list, seen, number, u) ==
  IF u /\ seen # {None}
  THEN IF number \notin seen
       THEN [list |-> <<number>> \o list, seen |-> seen \cup {number}]
       ELSE [list |-> list, seen |-> seen]
  ELSE [list |-> <<number>> \o list, seen |-> seen]

\* the if/else of the loop body: what becomes of phone_numbers and
\* generated_set once `number` was generated
Collect(list, seen, number, u) ==
  IF u /\ seen # NoSet
  THEN IF number \notin seen
       THEN [list |-> Append(list, number), seen |-> seen \cup {number}]
       ELSE [list |-> list, seen |-> seen]
  ELSE [list |-> Append(list, number), seen |-> seen]

(***************************************************************************)
(* VCFGenerator.create_contact_vcf_entry, create_vcf_file: the text of a    *)
(* contact and of a file.                                                   *)
(***************************************************************************)
NewLine == <<10>>
Space == <<32>>
\* "BEGIN:VCARD"
BeginVcard == <<66, 69, 71, 73, 78, 58, 86, 67, 65, 82, 68>>
\* "VERSION:3.0"
Version == <<86, 69, 82, 83, 73, 79, 78, 58, 51, 46, 48>>
\* "FN:"
FullNameField == <<70, 78, 58>>
\* "N:", ";" and ";;;"
NameField == <<78, 58>>
Semicolon == <<59>>
NameFieldEnd == <<59, 59, 59>>
\* "TEL;CELL:"
TelCell == <<84, 69, 76, 59, 67, 69, 76, 76, 58>>
\* "TEL;CELL;TYPE=VOICE:"
TelCellVoice ==
  <<84, 69, 76, 59, 67, 69, 76, 76, 59, 84, 89, 80, 69, 61, 86, 79, 73, 67,
    69, 58>>
\* "END:VCARD"
EndVcard == <<69, 78, 68, 58, 86, 67, 65, 82, 68>>

\* s[n:]
Drop(s, n) == SubSeq(s, n + 1, Len(s))

\* len(phone) == 11
FormattedLen == 11

\* formatted_phone with the digits grouped 3-3-5
formatted_phone_335(number) ==
  IF Len(number) = FormattedLen
  THEN Take(number, 3) \o Space \o Drop(Take(number, 6), 3) \o Space
       \o Drop(number, 6)
  ELSE number

\* f"{phone[:3]} {phone[3:7]} {phone[7:]}" if len(phone) == 11 else phone
formatted_phone(number) ==
  IF Len(number) = FormattedLen
  THEN Take(number, 3) \o Space \o Drop(Take(number, 7), 3) \o Space
       \o Drop(number, 7)
  ELSE number

\* the f-string of create_contact_vcf_entry, for a name of one character or
\* more (name[0] raises IndexError for the empty name)
create_contact_vcf_entry(who, number) ==
  Join(<<BeginVcard, NewLine,
         Version, NewLine,
         FullNameField, who, NewLine,
         NameField, Take(who, 1), Semicolon, Drop(who, 1), NameFieldEnd,
         NewLine,
         TelCell, number, NewLine,
         TelCellVoice, formatted_phone(number), NewLine,
         EndVcard, NewLine>>)

RECURSIVE FileText(_)
\* what create_vcf_file writes for a list of (name, phone) pairs: each entry
\* and a newline after it
FileText(pairs) ==
  IF pairs = <<>> THEN <<>>
  ELSE create_contact_vcf_entry(Head(pairs)[1], Head(pairs)[2]) \o NewLine
       \o FileText(Tail(pairs))

RECURSIVE PreviewLoop_NoBreak(_, _)
\* PreviewLoop without the newline after each entry
PreviewLoop_NoBreak(text, pairs) ==
  IF pairs = <<>> THEN text
  ELSE PreviewLoop_NoBreak(
         text \o create_contact_vcf_entry(Head(pairs)[1], Head(pairs)[2]),
         Tail(pairs))

RECURSIVE PreviewLoop(_, _)
\* the for loop of preview_vcf_content: preview_content += the entry, then
\* preview_content += "\n", for the pairs still to come
PreviewLoop(text, pairs) ==
  IF pairs = <<>> THEN text
  ELSE PreviewLoop(
         text \o create_contact_vcf_entry(Head(pairs)[1], Head(pairs)[2])
              \o NewLine,
         Tail(pairs))

\* the lines BEGIN:VCARD of a text
BlockCount(text) ==
  Cardinality({k \in 1..Len(text) :
                 /\ k = 1 \/ text[k - 1] = NewLine[1]
                 /\ k + Len(BeginVcard) <= Len(text)
                 /\ SubSeq(text, k, k + Len(BeginVcard)) = BeginVcard \o NewLine})

(***************************************************************************)
(* NameGenerator.generate_names and PhoneGenerator.generate_phone_numbers   *)
(* run from call to return, as VCFGenerator calls them.  rnds[k] holds the  *)
(* random draws of the k-th pass of the loop.                               *)
(***************************************************************************)
RECURSIVE NamesLoop(_, _, _, _, _)
\* the for loop from `done` passes on
NamesLoop(list, done, n, g, rnds) ==
  IF MorePasses(done, n)
  THEN NamesLoop(AppendName(list, g, rnds[done + 1].coin, rnds[done + 1].rnd),
                 done + 1, n, g, rnds)
  ELSE list

\* generate_names taking every gender it does not know for "all"
generate_names_AnyGender(n, g, rnds) ==
  NamesLoop(<<>>, 0, n, IF g \in {"boy", "girl"} THEN g ELSE "all", rnds)

generate_names(n, g, rnds) == NamesLoop(<<>>, 0, n, g, rnds)

RECURSIVE PhoneLoop(_, _, _, _, _, _, _, _)
\* the while loop from `tries` attempts on
PhoneLoop(list, seen, tries, n, p, c, u, rnds) ==
  IF LoopCondition(list, n, tries)
  THEN LET r == generate_phone_number(p, c, rnds[tries + 1])
           kept == Collect(list, seen, r.value, u)
       IN  IF r.raised
           THEN [raised |-> TRUE, phone_numbers |-> list,
                 generated_set |-> seen, attempts |-> tries]
           ELSE PhoneLoop(kept.list, kept.seen, tries + 1, n, p, c, u, rnds)
  ELSE [raised |-> FALSE, phone_numbers |-> list, generated_set |-> seen,
        attempts |-> tries]

\* generate_phone_numbers never setting up generated_set
generate_phone_numbers_NoSet(n, p, c, u, rnds) ==
  IF n <= 0
  THEN [raised |-> FALSE, phone_numbers |-> <<>>, generated_set |-> NoSet,
        attempts |-> 0]
  ELSE PhoneLoop(<<>>, NoSet, 0, n, p, c, u, rnds)

generate_phone_numbers(n, p, c, u, rnds) ==
  IF n <= 0
  THEN [raised |-> FALSE, phone_numbers |-> <<>>, generated_set |-> NoSet,
        attempts |-> 0]
  ELSE PhoneLoop(<<>>, IF u THEN {} ELSE NoSet, 0, n, p, c, u, rnds)

(***************************************************************************)
(* VCFGenerator.generate_contacts                                           *)
(***************************************************************************)
\* min_count one short of the shorter list
min_count_OneShort(ns, ps) ==
  IF Len(ns) = 0 \/ Len(ps) = 0 THEN 0
  ELSE (IF Len(ns) < Len(ps) THEN Len(ns) ELSE Len(ps)) - 1

\* min_count = min(len(names), len(phones))
min_count(ns, ps) == IF Len(ns) < Len(ps) THEN Len(ns) ELSE Len(ps)

\* [(names[i], phones[i]) for i in range(min_count)]
Zip(ns, ps) == [k \in 1..min_count(ns, ps) |-> <<ns[k], ps[k]>>]

\* the call from its arguments and the draws of the two generators: the
\* lists the generators return and the pairs made of them.  No prefix is
\* passed on, so generate_phone_number does not raise
generate_contacts(n, g, c, u, nameRnds, phoneRnds) ==
  IF n <= 0
  THEN [names |-> <<>>,
        phones |-> generate_phone_numbers(0, None, c, u, phoneRnds),
        contacts |-> <<>>]
  ELSE LET ns == generate_names(n, g, nameRnds)
           ps == generate_phone_numbers(n, None, c, u, phoneRnds)
       IN  [names |-> ns, phones |-> ps,
            contacts |-> Zip(ns, ps.phone_numbers)]

(***************************************************************************)
(* VCFGenerator.generate_vcf_files: file names.                             *)
(***************************************************************************)
\* output_dir="vcf_output"
OutputDir == <<118, 99, 102, 95, 111, 117, 116, 112, 117, 116>>
\* os.sep
Sep == <<47>>
\* filename_prefix, its default value
FilenamePrefix == <<36890, 35759, 24405>>
Underscore == <<95>>
\* ".vcf"
Extension == <<46, 118, 99, 102>>

RECURSIVE ZeroPad(_, _)
\* s with zeros in front up to a width of w
ZeroPad(s, w) == IF Len(s) >= w THEN s ELSE ZeroPad(<<48>> \o s, w)

\* the day the clock shows, as %Y%m%d
Today == Str(20261101)

\* datetime.strftime("%Y%m%d_%H%M%S") at t seconds after midnight
strftime(t) ==
  Join(<<Today, Underscore, ZeroPad(Str(t \div 3600), 2),
         ZeroPad(Str((t \div 60) % 60), 2), ZeroPad(Str(t % 60), 2)>>)

\* Format03d padding to two digits
Format03d_TwoDigits(m) == ZeroPad(Str(m), 2)

\* the format specification 03d applied to m >= 0
\* Format03d keeping the last three digits only
Format03d_Modulo(m) == ZeroPad(Str(m % 1000), 3)

Format03d(m) == ZeroPad(Str(m), 3)

\* number_format.format(m) for the two formats the window offers
Format(fmt, m) == IF fmt = "{:03d}" THEN Format03d(m) ELSE Str(m)

\* current_number counting the files from one
current_number_FromOne(start, k) == start + k + 1

\* current_number = start_number + i
current_number(start, k) == start + k

\* f"{filename_prefix}_{number_str}.vcf"
custom_number_filename(start, fmt, k) ==
  Join(<<FilenamePrefix, Underscore, Format(fmt, current_number(start, k)),
         Extension>>)

\* f"{filename_prefix}_{timestamp}_{i+1:03d}.vcf"
timestamp_filename(stamp, k) ==
  Join(<<FilenamePrefix, Underscore, stamp, Underscore, Format03d(k + 1),
         Extension>>)

\* os.path.join(output_dir, filename)
path_join(dir, file) == Join(<<dir, Sep, file>>)

(***************************************************************************)
(* Python floats.  (i + 1) / file_count * 100 is computed in IEEE 754       *)
(* binary64: each operation yields the exact result rounded to 53           *)
(* significant bits, ties to even.  A float is kept as [exp, sig], its      *)
(* value being sig * 2^exp; sig is an integer of 53 bits or a few more,     *)
(* written in digits of base 2^13, most significant first: one leading      *)
(* digit and four digits of 13 bits.                                        *)
(***************************************************************************)
LimbBits == 13
FractionLimbs == 4
Limb == 2 ^ LimbBits

Front(s) == SubSeq(s, 1, Len(s) - 1)

Last(s) == s[Len(s)]

RECURSIVE BitLen(_)
\* the number of binary digits of t >= 1
BitLen(t) == IF t < 2 THEN 1 ELSE 1 + BitLen(t \div 2)

RECURSIVE Scale(_, _, _)
\* sig * m + c, the carries propagated into the leading digit
Scale(sig, m, c) ==
  IF Len(sig) = 1 THEN <<sig[1] * m + c>>
  ELSE Append(Scale(Front(sig), m, (Last(sig) * m + c) \div Limb),
              (Last(sig) * m + c) % Limb)

\* sig rounded to a multiple of 2^k, ties to even
RoundHalfEven(sig, k) ==
  LET unit == 2 ^ k
      low == Last(sig) % unit
      odd == (Last(sig) \div unit) % 2 = 1
      up == 2 * low > unit \/ (2 * low = unit /\ odd)
  IN  Scale(sig, 1, (IF up THEN unit ELSE 0) - low)

RECURSIVE LeadShift(_, _)
\* how often a must be doubled to reach n
LeadShift(a, n) == IF a >= n THEN 0 ELSE 1 + LeadShift(2 * a, n)

RECURSIVE DivLimbs(_, _, _, _)
\* sig followed by the next k digits of r / n, 0 <= r < n, and the remainder
DivLimbs(r, n, k, sig) ==
  IF k = 0 THEN [sig |-> sig, rem |-> r]
  ELSE DivLimbs((r * Limb) % n, n, k - 1, Append(sig, (r * Limb) \div n))

\* a / n for integers 1 <= a <= n
TrueDivide(a, n) ==
  LET s == LeadShift(a, n)
      d == DivLimbs(a * (2 ^ s) - n, n, FractionLimbs, <<1>>)
      up == \/ 2 * d.rem > n
            \/ 2 * d.rem = n /\ Last(d.sig) % 2 = 1
  IN  [exp |-> -s - LimbBits * FractionLimbs,
       sig |-> Scale(d.sig, 1, IF up THEN 1 ELSE 0)]

\* x * m for a float x and an integer 1 <= m < 2^LimbBits: the product has
\* as many bits too many as its leading digit has beyond the first
Times(x, m) ==
  LET p == Scale(x.sig, m, 0)
  IN  [exp |-> x.exp, sig |-> RoundHalfEven(p, BitLen(p[1]) - 1)]

\* int(x) rounding to the nearest integer instead
int_Nearest(x) ==
  LET ones == 2 ^ (-x.exp - LimbBits * FractionLimbs)
  IN  (2 * x.sig[1] + ones) \div (2 * ones)

\* int(x) for a float 0 < x < 2^LimbBits: the digits before the binary
\* point, which all are in the leading digit of sig
int(x) == x.sig[1] \div (2 ^ (-x.exp - LimbBits * FractionLimbs))

\* Percent of the files before file k
Percent_FilesBefore(k, n) ==
  IF k = 0 THEN 0 ELSE int(Times(TrueDivide(k, n), 100))

\* progress = (i + 1) / file_count * 100; int(progress), after file k of n
Percent(k, n) == int(Times(TrueDivide(k + 1, n), 100))


(***************************************************************************)
(* Arguments and random draws the calls are tried with.                     *)
(***************************************************************************)
\* prefix: None, "", entries of the prefix list, and strings that are not
PrefixArgs ==
  {None, <<>>, Str(138), Str(1440), Str(170), Str(144), Str(13), Str(13800)}

\* carrier: None, the four carriers, and a string that names none of them
Carriers == {"mobile", "unicom", "telecom", "virtual"}
CarrierArgs == Carriers \cup {NoCarrier, "all"}

\* phone_number of get_carrier_name, besides generated numbers
NumberArgs ==
  {None, <<>>, Str(1), Str(13), Str(138), Str(144), Str(1440), Str(170),
   Str(186), Str(1999), Str(999) \o Str(12345678)}

\* draws of a single call: any entry of the list, any of the ten digit
\* streams (every digit occurs at every position)
AnyDraws == Draws(0..(Len(prefixes) - 1), Digits)

\* draws inside a batch: pick -1 is the last entry of the list
BatchPicks == (-1)..MaxPick
BatchDraws == Draws(BatchPicks, 0..MaxSeed)

(***************************************************************************)
(* State.                                                                   *)
(***************************************************************************)
NoPhone == [raised |-> FALSE, value |-> <<>>]

NoPhoneCall == prefix' = None /\ carrier' = NoCarrier /\ phone' = NoPhone

NoBatch ==
  /\ count' = 0
  /\ unique' = TRUE
  /\ phone_numbers' = <<>>
  /\ generated_set' = NoSet
  /\ attempts' = 0
  /\ calls' = 0

NoLookup == phone_number' = None /\ carrier_name' = <<>>

NoNames ==
  /\ num' = 0
  /\ gender' = "all"
  /\ names' = <<>>
  /\ passes' = 0
  /\ name' = <<>>

NoVcfArgs ==
  /\ file_count' = 0
  /\ contacts_per_file' = 0
  /\ unique_phones' = TRUE
  /\ progress_callback' = FALSE
  /\ naming_mode' = "timestamp"
  /\ start_number' = 1
  /\ number_format' = "{:03d}"

NoVcfLocals ==
  /\ timestamp' = None
  /\ file_index' = 0
  /\ filepath' = <<>>
  /\ pc' = "none"
  /\ created_files' = <<>>
  /\ failed_files' = <<>>

NoFiles ==
  /\ output_dir_exists' = FALSE
  /\ disk' = <<>>
  /\ file_text' = <<>>

\* no VCFGeneratorThread was created yet
NoThread == [output_dir |-> <<>>, file_count |-> 0, done |-> 0, failed |-> 0]

\* no call is in progress and the locals of the last one are gone
Idle == status = "idle"

\* a call returned or raised and was not yet replaced by the next one
Ended == status \in {"returned", "raised"}

Init ==
  /\ op = "none"
  /\ status = "idle"
  /\ prefix = None
  /\ carrier = NoCarrier
  /\ phone = NoPhone
  /\ count = 0
  /\ unique = TRUE
  /\ phone_numbers = <<>>
  /\ generated_set = NoSet
  /\ attempts = 0
  /\ calls = 0
  /\ phone_number = None
  /\ carrier_name = <<>>
  /\ num = 0
  /\ gender = "all"
  /\ names = <<>>
  /\ passes = 0
  /\ name = <<>>
  /\ now = ClockStart
  /\ output_dir_exists = FALSE
  /\ disk = <<>>
  /\ file_text = <<>>
  /\ vcf_entry = <<>>
  /\ contacts = <<>>
  /\ file_count = 0
  /\ contacts_per_file = 0
  /\ unique_phones = TRUE
  /\ progress_callback = FALSE
  /\ naming_mode = "timestamp"
  /\ start_number = 1
  /\ number_format = "{:03d}"
  /\ timestamp = None
  /\ file_index = 0
  /\ filepath = <<>>
  /\ pc = "none"
  /\ created_files = <<>>
  /\ failed_files = <<>>
  /\ trace = <<>>
  /\ result = None
  /\ preview_content = <<>>
  /\ statistics = None
  /\ generate_vcf_btn = TRUE
  /\ progress_bar = [visible |-> FALSE, value |-> 0]
  /\ vcf_stats_label = [text |-> "ready", files_created |-> 0]
  /\ modal = "none"
  /\ vcf_worker_thread = NoThread
  /\ running = 0
  /\ signals = <<>>
  /\ emitted = <<>>

(***************************************************************************)
(* Calls of PhoneGenerator.                                                 *)
(***************************************************************************)
\* one call generate_phone_number(prefix, carrier)
GeneratePhoneNumber ==
  /\ Idle
  /\ \E p \in PrefixArgs, c \in CarrierArgs, rnd \in AnyDraws :
       LET r == generate_phone_number(p, c, rnd)
       IN  /\ prefix' = p
           /\ carrier' = c
           /\ phone' = r
           /\ status' = IF r.raised THEN "raised" ELSE "returned"
  /\ op' = "generate_phone_number"
  /\ NoBatch
  /\ NoLookup
  /\ UNCHANGED nameVars
  /\ UNCHANGED vcfVars
  /\ UNCHANGED <<statistics, winVars>>

\* generate_phone_numbers(count, prefix, carrier, unique) up to its loop
StartPhoneNumbers ==
  /\ Idle
  /\ \E n \in (-1)..MaxCount, p \in PrefixArgs, c \in CarrierArgs,
        u \in BOOLEAN :
       /\ count' = n
       /\ prefix' = p
       /\ carrier' = c
       /\ unique' = u
       /\ generated_set' = IF n > 0 /\ u THEN {} ELSE NoSet
       /\ status' = IF n <= 0 THEN "returned" ELSE "running"
  /\ op' = "generate_phone_numbers"
  /\ phone' = NoPhone
  /\ phone_numbers' = <<>>
  /\ attempts' = 0
  /\ calls' = 0
  /\ NoLookup
  /\ UNCHANGED nameVars
  /\ UNCHANGED vcfVars
  /\ UNCHANGED <<statistics, winVars>>

\* one pass of the loop body
PhoneNumbersStep ==
  /\ op = "generate_phone_numbers"
  /\ status = "running"
  /\ LoopCondition(phone_numbers, count, attempts)
  /\ \E rnd \in BatchDraws :
       LET r == generate_phone_number(prefix, carrier, rnd)
           kept == Collect(phone_numbers, generated_set, r.value, unique)
       IN  /\ phone' = r
           /\ calls' = calls + 1
           /\ IF r.raised
              THEN /\ status' = "raised"
                   /\ UNCHANGED <<phone_numbers, generated_set, attempts>>
              ELSE /\ status' = status
                   /\ phone_numbers' = kept.list
                   /\ generated_set' = kept.seen
                   /\ attempts' = attempts + 1
  /\ UNCHANGED <<op, prefix, carrier, count, unique, phone_number,
                 carrier_name>>
  /\ UNCHANGED nameVars
  /\ UNCHANGED vcfVars
  /\ UNCHANGED <<statistics, winVars>>

\* the loop condition fails: return phone_numbers
PhoneNumbersReturn ==
  /\ op = "generate_phone_numbers"
  /\ status = "running"
  /\ ~LoopCondition(phone_numbers, count, attempts)
  /\ status' = "returned"
  /\ UNCHANGED <<op, prefix, carrier, phone, count, unique, phone_numbers,
                 generated_set, attempts, calls, phone_number, carrier_name>>
  /\ UNCHANGED nameVars
  /\ UNCHANGED vcfVars
  /\ UNCHANGED <<statistics, winVars>>

\* get_carrier_name(phone_number) of an argument from NumberArgs
GetCarrierName ==
  /\ Idle
  /\ \E n \in NumberArgs :
       /\ phone_number' = n
       /\ carrier_name' = get_carrier_name(n)
  /\ op' = "get_carrier_name"
  /\ status' = "returned"
  /\ NoPhoneCall
  /\ NoBatch
  /\ UNCHANGED nameVars
  /\ UNCHANGED vcfVars
  /\ UNCHANGED <<statistics, winVars>>

\* get_carrier_name(phone_number) of the number generate_phone_number
\* returned last
GetCarrierNameOfGenerated ==
  /\ Ended
  /\ op \in {"generate_phone_number", "generate_phone_numbers"}
  /\ ~phone.raised
  /\ phone.value # <<>>
  /\ phone_number' = phone.value
  /\ carrier_name' = get_carrier_name(phone.value)
  /\ op' = "get_carrier_name"
  /\ status' = "returned"
  /\ UNCHANGED <<prefix, carrier, phone>>
  /\ NoBatch
  /\ UNCHANGED nameVars
  /\ UNCHANGED vcfVars
  /\ UNCHANGED <<statistics, winVars>>

\* one call get_statistics()
GetStatistics ==
  /\ Idle
  /\ statistics' = get_statistics
  /\ op' = "get_statistics"
  /\ status' = "returned"
  /\ UNCHANGED <<phoneVars, nameVars, vcfVars, winVars>>

(***************************************************************************)
(* Calls of NameGenerator.                                                  *)
(***************************************************************************)
\* gender: the three supported values and one that is none of them
Genders == {"boy", "girl", "all"}
GenderArgs == Genders \cup {"unknown"}

\* one call make_boy_name() or make_girl_name(): any surname, one of the
\* first MaxPick + 1 given names of the table drawn from
MakeName ==
  /\ Idle
  /\ \E g \in {"boy", "girl"},
        rnd \in NameDraws(0..(Len(xing) - 1), 0..MaxPick) :
       /\ gender' = g
       /\ name' = IF g = "boy" THEN make_boy_name(rnd)
                  ELSE make_girl_name(rnd)
  /\ op' = "make_name"
  /\ status' = "returned"
  /\ UNCHANGED <<num, names, passes>>
  /\ UNCHANGED phoneVars
  /\ UNCHANGED vcfVars
  /\ UNCHANGED <<statistics, winVars>>

\* generate_names(num, gender) up to its loop
StartNames ==
  /\ Idle
  /\ \E n \in (-1)..MaxCount, g \in GenderArgs :
       /\ num' = n
       /\ gender' = g
       /\ status' = IF n <= 0 THEN "returned" ELSE "running"
  /\ op' = "generate_names"
  /\ names' = <<>>
  /\ passes' = 0
  /\ UNCHANGED name
  /\ UNCHANGED phoneVars
  /\ UNCHANGED vcfVars
  /\ UNCHANGED <<statistics, winVars>>

\* one pass of for _ in range(num)
NamesStep ==
  /\ op = "generate_names"
  /\ status = "running"
  /\ MorePasses(passes, num)
  /\ \E coin \in 1..2, rnd \in NameDraws(BatchPicks, 0..MaxPick) :
       names' = AppendName(names, gender, coin, rnd)
  /\ passes' = passes + 1
  /\ UNCHANGED <<op, status, num, gender, name>>
  /\ UNCHANGED phoneVars
  /\ UNCHANGED vcfVars
  /\ UNCHANGED <<statistics, winVars>>

\* range(num) is exhausted: return names
NamesReturn ==
  /\ op = "generate_names"
  /\ status = "running"
  /\ ~MorePasses(passes, num)
  /\ status' = "returned"
  /\ UNCHANGED <<op, num, gender, names, passes, name>>
  /\ UNCHANGED phoneVars
  /\ UNCHANGED vcfVars
  /\ UNCHANGED <<statistics, winVars>>

(***************************************************************************)
(* Calls of VCFGenerator.  The two generators run from call to return       *)
(* inside the step that calls them.                                         *)
(***************************************************************************)
\* carrier: None or the carrier of the shortest list
ContactCarriers == {NoCarrier, "virtual"}

\* draws of generate_phone_number: the first or the last entry of the list
ContactDraws == Draws({-1, 0}, {0})

\* draws of one pass of generate_names: a boy's name of a one-character
\* surname and a two-character given name, or a girl's name of a
\* two-character surname and a one-character given name
ContactNameDraws ==
  {[coin |-> 1, rnd |-> [first |-> 0, u |-> 0, second |-> 0]],
   [coin |-> 2, rnd |-> [first |-> -1, u |-> 70, second |-> 0]]}

\* the draws of the passes of generate_names(n, ...)
NameStreams(n, draws) == [1..n -> draws]

\* the draws of the attempts of generate_phone_numbers(n, ...): the first
\* draw, and the draw every later attempt repeats
DrawStreams(n, draws) ==
  {[k \in 1..MaxAttempts(n) |-> IF k = 1 THEN d.first ELSE d.rest] :
     d \in [first : draws, rest : draws]}

\* generate_contacts(n, g, c, u) called the two generators and they left r
CallGenerators(n, g, c, u, r) ==
  /\ count' = n
  /\ gender' = g
  /\ carrier' = c
  /\ unique' = u
  /\ prefix' = None
  /\ phone' = NoPhone
  /\ phone_numbers' = r.phones.phone_numbers
  /\ generated_set' = r.phones.generated_set
  /\ attempts' = r.phones.attempts
  /\ calls' = r.phones.attempts
  /\ NoLookup
  /\ num' = IF n > 0 THEN n ELSE 0
  /\ names' = r.names
  /\ passes' = IF n > 0 THEN n ELSE 0
  /\ name' = <<>>
  /\ contacts' = r.contacts

\* one call generate_contacts(count, gender, carrier, unique_phones)
GenerateContacts ==
  /\ Idle
  /\ \E n \in (-1)..MaxCount, g \in GenderArgs, c \in ContactCarriers,
        u \in BOOLEAN :
       \E nameRnds \in NameStreams(n, ContactNameDraws),
          phoneRnds \in DrawStreams(n, ContactDraws) :
         CallGenerators(n, g, c, u,
                        generate_contacts(n, g, c, u, nameRnds, phoneRnds))
  /\ op' = "generate_contacts"
  /\ status' = "returned"
  /\ UNCHANGED <<now, output_dir_exists, disk, file_text, vcf_entry, vcfArgs,
                 vcfLocals, trace, result>>
  /\ UNCHANGED <<preview_content, statistics, winVars>>

\* name: generated names and a name of one character
EntryNames ==
  {make_boy_name(r) : r \in NameDraws({-1, 0}, {0})}
    \cup {make_girl_name(r) : r \in NameDraws({-1, 0}, {0})}
    \cup {<<26446>>}

\* phone: generated numbers and one that has not 11 characters
EntryPhones ==
  {generate_phone_number(None, NoCarrier, d).value : d \in ContactDraws}
    \cup {Str(10086)}

\* one call create_contact_vcf_entry(name, phone)
CreateContactVcfEntry ==
  /\ Idle
  /\ \E who \in EntryNames, number \in EntryPhones :
       /\ name' = who
       /\ phone' = [raised |-> FALSE, value |-> number]
       /\ vcf_entry' = create_contact_vcf_entry(who, number)
  /\ op' = "create_contact_vcf_entry"
  /\ status' = "returned"
  /\ UNCHANGED <<prefix, carrier, count, unique, phone_numbers, generated_set,
                 attempts, calls, phone_number, carrier_name>>
  /\ UNCHANGED <<num, gender, names, passes>>
  /\ UNCHANGED <<now, output_dir_exists, disk, file_text, contacts, vcfArgs,
                 vcfLocals, trace, result>>
  /\ UNCHANGED <<preview_content, statistics, winVars>>

\* gender of a batch: a supported value and one that is not
FileGenders == {"all", "unknown"}

\* the one draw a pass of generate_names makes inside a batch of files
FileNameDraws == {[coin |-> 1, rnd |-> [first |-> 0, u |-> 0, second |-> 0]]}

\* start_number and number_format of the custom_number mode: the window
\* offers 1..99999 and these two formats
StartNumbers == {5, 999}
NumberFormats == {"{:03d}", "{:d}"}

\* naming_mode, start_number, number_format: the timestamp mode, a mode that
\* is neither of the two, and the custom_number mode
NamingArgs ==
  [naming_mode : {"timestamp", "sequence"}, start_number : {1},
   number_format : {"{:03d}"}]
    \cup [naming_mode : {"custom_number"}, start_number : StartNumbers,
          number_format : NumberFormats]

\* "无法创建输出目录: "
ErrorPrefix ==
  <<26080, 27861, 21019, 24314, 36755, 20986, 30446, 24405, 58, 32>>

\* str(e) of the exception os.makedirs raised: "[Errno 13] Permission denied"
MakedirsException ==
  <<91, 69, 114, 114, 110, 111, 32, 49, 51, 93, 32, 80, 101, 114, 109, 105,
    115, 115, 105, 111, 110, 32, 100, 101, 110, 105, 101, 100>>

\* the record returned when the directory cannot be created
MakedirsError ==
  [success |-> FALSE, error |-> ErrorPrefix \o MakedirsException,
   files_created |-> 0]

\* MakedirsFails never noticing the failure
MakedirsFails_Never(exists, made) == FALSE

\* not os.path.exists(output_dir), and os.makedirs(output_dir) raises
MakedirsFails(exists, made) == ~exists /\ ~made

\* for i in range(file_count): another file is due after `done` files
MoreFiles(done, n) == done < n

\* the returned record reporting success whatever failed
BatchResult_AlwaysSuccess(created, failed, perFile) ==
  [success |-> TRUE,
   files_created |-> Len(created),
   files_failed |-> Len(failed),
   created_files |-> created,
   failed_files |-> failed,
   output_directory |-> OutputDir,
   total_contacts |-> Len(created) * perFile]

\* the returned record counting the contacts of every file attempted
BatchResult_AllFiles(created, failed, perFile) ==
  [success |-> Len(failed) = 0,
   files_created |-> Len(created),
   files_failed |-> Len(failed),
   created_files |-> created,
   failed_files |-> failed,
   output_directory |-> OutputDir,
   total_contacts |-> (Len(created) + Len(failed)) * perFile]

\* the returned record reporting success only if a file was created
BatchResult_NeedsFile(created, failed, perFile) ==
  [success |-> Len(created) > 0 /\ Len(failed) = 0,
   files_created |-> Len(created),
   files_failed |-> Len(failed),
   created_files |-> created,
   failed_files |-> failed,
   output_directory |-> OutputDir,
   total_contacts |-> Len(created) * perFile]

\* the record returned after the loop
BatchResult(created, failed, perFile) ==
  [success |-> Len(failed) = 0,
   files_created |-> Len(created),
   files_failed |-> Len(failed),
   created_files |-> created,
   failed_files |-> failed,
   output_directory |-> OutputDir,
   total_contacts |-> Len(created) * perFile]

\* generate_vcf_files(...) up to its loop: the directory exists or is made,
\* or the call returns the error record; the timestamp is taken
StartVcfFiles ==
  /\ Idle
  /\ \E n \in 0..MaxFiles, m \in (-1)..MaxCount, g \in FileGenders,
        u \in BOOLEAN, cb \in BOOLEAN, naming \in NamingArgs,
        exists \in BOOLEAN, made \in BOOLEAN :
       /\ file_count' = n
       /\ contacts_per_file' = m
       /\ gender' = g
       /\ unique_phones' = u
       /\ progress_callback' = cb
       /\ naming_mode' = naming.naming_mode
       /\ start_number' = naming.start_number
       /\ number_format' = naming.number_format
       /\ output_dir_exists' = (exists \/ made)
       /\ IF MakedirsFails(exists, made)
          THEN /\ result' = MakedirsError
               /\ status' = "returned"
               /\ pc' = "done"
               /\ timestamp' = None
          ELSE /\ result' = None
               /\ status' = "running"
               /\ pc' = IF MoreFiles(0, n) THEN "generate_contacts"
                        ELSE "return"
               /\ timestamp' = IF naming.naming_mode = "timestamp"
                               THEN strftime(now) ELSE None
  /\ op' = "generate_vcf_files"
  /\ carrier' = NoCarrier
  /\ prefix' = None
  /\ phone' = NoPhone
  /\ NoBatch
  /\ NoLookup
  /\ num' = 0
  /\ names' = <<>>
  /\ passes' = 0
  /\ name' = <<>>
  /\ contacts' = <<>>
  /\ vcf_entry' = <<>>
  /\ file_index' = 0
  /\ filepath' = <<>>
  /\ created_files' = <<>>
  /\ failed_files' = <<>>
  /\ disk' = <<>>
  /\ file_text' = <<>>
  /\ trace' = <<>>
  /\ UNCHANGED now
  /\ UNCHANGED <<preview_content, statistics, winVars>>

InBatchAt(line) ==
  op = "generate_vcf_files" /\ status = "running" /\ pc = line

\* the loop body up to filepath: the contacts of file i and its name; the
\* name `timestamp` is unbound unless naming_mode was "timestamp"
GenerateFileContacts ==
  /\ InBatchAt("generate_contacts")
  /\ \E nameRnds \in NameStreams(contacts_per_file, FileNameDraws),
        phoneRnds \in DrawStreams(contacts_per_file, ContactDraws) :
       CallGenerators(contacts_per_file, gender, carrier, unique_phones,
                      generate_contacts(contacts_per_file, gender, carrier,
                                        unique_phones, nameRnds, phoneRnds))
  /\ trace' = Append(trace, [ev |-> "generate_contacts", file |-> file_index])
  /\ IF naming_mode = "custom_number"
     THEN /\ filepath' =
               path_join(OutputDir,
                         custom_number_filename(start_number, number_format,
                                                file_index))
          /\ pc' = "create_vcf_file"
          /\ status' = status
     ELSE IF timestamp = None
          THEN /\ filepath' = filepath
               /\ pc' = "done"
               /\ status' = "raised"
          ELSE /\ filepath' =
                    path_join(OutputDir,
                              timestamp_filename(timestamp, file_index))
               /\ pc' = "create_vcf_file"
               /\ status' = status
  /\ UNCHANGED <<op, now, output_dir_exists, disk, file_text, vcf_entry,
                 vcfArgs, timestamp, file_index, created_files, failed_files,
                 result>>
  /\ UNCHANGED <<preview_content, statistics, winVars>>

\* create_vcf_file(contacts, filepath): the text is written, or open() or a
\* write raises, which create_vcf_file catches, and the path is appended to
\* created_files or to failed_files
CreateVcfFile ==
  /\ InBatchAt("create_vcf_file")
  /\ \E written \in BOOLEAN :
       /\ trace' = Append(trace, [ev |-> "create_vcf_file",
                                  file |-> file_index,
                                  path |-> filepath,
                                  ok |-> written])
       /\ IF written
          THEN /\ created_files' = Append(created_files, filepath)
               /\ failed_files' = failed_files
               /\ file_text' = FileText(contacts)
               /\ disk' = (filepath :> BlockCount(FileText(contacts))) @@ disk
          ELSE /\ created_files' = created_files
               /\ failed_files' = Append(failed_files, filepath)
               /\ UNCHANGED <<file_text, disk>>
  /\ pc' = "progress_callback"
  /\ UNCHANGED <<op, status, now, output_dir_exists, vcf_entry, contacts,
                 vcfArgs, timestamp, file_index, filepath, result>>
  /\ UNCHANGED <<phoneVars, nameVars>>
  /\ UNCHANGED <<preview_content, statistics, winVars>>

\* if progress_callback: progress_callback(int(progress)), and the loop
\* goes on to the next file or ends
ProgressCallback ==
  /\ InBatchAt("progress_callback")
  /\ trace' = IF progress_callback
              THEN Append(trace, [ev |-> "progress_callback",
                                  file |-> file_index,
                                  value |-> Percent(file_index, file_count)])
              ELSE trace
  /\ IF MoreFiles(file_index + 1, file_count)
     THEN file_index' = file_index + 1 /\ pc' = "generate_contacts"
     ELSE file_index' = file_index /\ pc' = "return"
  /\ UNCHANGED <<op, status, now, output_dir_exists, disk, file_text,
                 vcf_entry, contacts, vcfArgs, timestamp, filepath,
                 created_files, failed_files, result>>
  /\ UNCHANGED <<phoneVars, nameVars>>
  /\ UNCHANGED <<preview_content, statistics, winVars>>

\* the loop is over: return the record
ReturnVcfFiles ==
  /\ InBatchAt("return")
  /\ result' = BatchResult(created_files, failed_files, contacts_per_file)
  /\ status' = "returned"
  /\ pc' = "done"
  /\ UNCHANGED <<op, now, output_dir_exists, disk, file_text, vcf_entry,
                 contacts, vcfArgs, timestamp, file_index, filepath,
                 created_files, failed_files, trace>>
  /\ UNCHANGED <<phoneVars, nameVars>>
  /\ UNCHANGED <<preview_content, statistics, winVars>>

\* a second passes while a batch is being written
Tick ==
  /\ op = "generate_vcf_files"
  /\ status = "running"
  /\ now < ClockStart + MaxTicks
  /\ now' = now + 1
  /\ UNCHANGED <<op, status, output_dir_exists, disk, file_text, vcf_entry,
                 contacts, vcfArgs, vcfLocals, trace, result>>
  /\ UNCHANGED <<phoneVars, nameVars>>
  /\ UNCHANGED <<preview_content, statistics, winVars>>

\* the progress report after file i of file_count files by itself, for the
\* file counts the window offers
ReportProgress ==
  /\ Idle
  /\ \E n \in 1..MaxFileCount :
       \E k \in 0..(n - 1) :
         /\ file_count' = n
         /\ file_index' = k
         /\ trace' = <<[ev |-> "progress_callback", file |-> k,
                        value |-> Percent(k, n)]>>
  /\ op' = "progress_callback"
  /\ status' = "returned"
  /\ progress_callback' = TRUE
  /\ UNCHANGED <<contacts_per_file, unique_phones, naming_mode, start_number,
                 number_format>>
  /\ UNCHANGED <<timestamp, filepath, pc, created_files, failed_files>>
  /\ UNCHANGED <<now, output_dir_exists, disk, file_text, vcf_entry, contacts,
                 result>>
  /\ UNCHANGED <<phoneVars, nameVars>>
  /\ UNCHANGED <<preview_content, statistics, winVars>>

\* one call preview_vcf_content(count, gender, carrier); generate_contacts
\* is called with its default unique_phones=True
PreviewVcfContent ==
  /\ Idle
  /\ \E n \in (-1)..MaxCount, g \in GenderArgs, c \in ContactCarriers :
       \E nameRnds \in NameStreams(n, ContactNameDraws),
          phoneRnds \in DrawStreams(n, ContactDraws) :
         LET r == generate_contacts(n, g, c, TRUE, nameRnds, phoneRnds)
         IN  /\ CallGenerators(n, g, c, TRUE, r)
             /\ preview_content' = PreviewLoop(<<>>, r.contacts)
  /\ op' = "preview_vcf_content"
  /\ status' = "returned"
  /\ UNCHANGED <<now, output_dir_exists, disk, file_text, vcf_entry, vcfArgs,
                 vcfLocals, trace, result>>
  /\ UNCHANGED <<statistics, winVars>>

\* loop indexes i around the places where i + 1 and start_number + i get
\* another digit
FileIndexes == {0, 1, 8, 9, 98, 99, 100, 998, 999, 1000, 1001, 1100}

\* naming_mode, start_number, number_format of the two naming modes
NamedArgs == {a \in NamingArgs : a.naming_mode # "sequence"}

\* filepath of file i of a batch: the naming branch of the loop body by
\* itself, for loop indexes beyond the file counts a batch is run with
FilePath ==
  /\ Idle
  /\ \E k \in FileIndexes, naming \in NamedArgs :
       /\ file_index' = k
       /\ naming_mode' = naming.naming_mode
       /\ start_number' = naming.start_number
       /\ number_format' = naming.number_format
       /\ timestamp' = IF naming.naming_mode = "timestamp"
                       THEN strftime(now) ELSE None
       /\ filepath' =
            path_join(OutputDir,
                      IF naming.naming_mode = "custom_number"
                      THEN custom_number_filename(naming.start_number,
                                                  naming.number_format, k)
                      ELSE timestamp_filename(strftime(now), k))
  /\ op' = "filepath"
  /\ status' = "returned"
  /\ UNCHANGED <<file_count, contacts_per_file, unique_phones,
                 progress_callback>>
  /\ UNCHANGED <<pc, created_files, failed_files>>
  /\ UNCHANGED <<now, output_dir_exists, disk, file_text, vcf_entry, contacts,
                 trace, result, preview_content>>
  /\ UNCHANGED <<phoneVars, nameVars>>
  /\ UNCHANGED <<statistics, winVars>>

\* the caller is done with the result; the next call starts afresh
Forget ==
  /\ Ended
  /\ op' = "none"
  /\ status' = "idle"
  /\ NoPhoneCall
  /\ NoBatch
  /\ NoLookup
  /\ NoNames
  /\ NoVcfArgs
  /\ NoVcfLocals
  /\ NoFiles
  /\ now' = ClockStart
  /\ vcf_entry' = <<>>
  /\ contacts' = <<>>
  /\ trace' = <<>>
  /\ result' = None
  /\ preview_content' = <<>>
  /\ statistics' = None
  /\ UNCHANGED winVars

Next ==
  \/ GeneratePhoneNumber
  \/ StartPhoneNumbers
  \/ PhoneNumbersStep
  \/ PhoneNumbersReturn
  \/ GetCarrierName
  \/ GetCarrierNameOfGenerated
  \/ GetStatistics
  \/ MakeName
  \/ StartNames
  \/ NamesStep
  \/ NamesReturn
  \/ Forget

\* the calls of name_generator.py
Spec == Init /\ [][Next]_vars

VcfNext ==
  \/ GenerateContacts
  \/ CreateContactVcfEntry
  \/ StartVcfFiles
  \/ GenerateFileContacts
  \/ CreateVcfFile
  \/ ProgressCallback
  \/ ReturnVcfFiles
  \/ Tick
  \/ ReportProgress
  \/ PreviewVcfContent
  \/ FilePath
  \/ Forget

\* the calls of vcf_generator.py
VcfSpec == Init /\ [][VcfNext]_vars

(***************************************************************************)
(* MainWindow and VCFGeneratorThread of main_window.py: the button, the     *)
(* directory dialog, the worker thread running generate_vcf_files, and the  *)
(* slots its signals are connected to.  A signal emitted by the thread is   *)
(* queued for the window and handled there, in the order of emission.       *)
(***************************************************************************)
\* what QFileDialog.getExistingDirectory returns: "" when the dialog is
\* cancelled, else the directory chosen
DirectoryChoices == {<<>>, OutputDir}

\* the message boxes the slots open and wait for
MessageBoxes == {"information", "critical"}

\* the button left as it was when the thread is started
DisableButton_Not(enabled) == enabled

\* generate_vcf_btn.setEnabled(False)
DisableButton(enabled) == FALSE

\* the record generate_vcf_files returns to run(), as far as the slot
\* on_vcf_generated reads it
ThreadResult(thread) ==
  [success |-> thread.failed = 0,
   files_created |-> thread.done - thread.failed]

\* a click on generate_vcf_btn: MainWindow.generate_vcf_files reads the
\* widgets and opens the directory dialog
ClickGenerate ==
  /\ modal = "none"
  /\ generate_vcf_btn
  /\ modal' = "getExistingDirectory"
  /\ UNCHANGED <<generate_vcf_btn, progress_bar, vcf_worker_thread, running,
                 signals, emitted>>
  /\ UNCHANGED vcf_stats_label
  /\ UNCHANGED apiVars

\* the dialog closes: without a directory the slot returns, with one it
\* shows the progress bar, disables the button, and creates and starts the
\* thread for the file count read from the spin box
CloseDirectoryDialog ==
  /\ modal = "getExistingDirectory"
  /\ \E output_dir \in DirectoryChoices, n \in 1..MaxFiles :
       IF output_dir = <<>>
       THEN UNCHANGED <<generate_vcf_btn, progress_bar, vcf_worker_thread,
                        running, emitted>>
       ELSE /\ progress_bar' = [visible |-> TRUE, value |-> 0]
            /\ generate_vcf_btn' = DisableButton(generate_vcf_btn)
            /\ vcf_worker_thread' =
                 [output_dir |-> output_dir, file_count |-> n, done |-> 0,
                  failed |-> 0]
            /\ running' = running + 1
            /\ emitted' = <<>>
  /\ modal' = "none"
  /\ UNCHANGED signals
  /\ UNCHANGED vcf_stats_label
  /\ UNCHANGED apiVars

\* run(): generate_vcf_files writes or fails to write one more file and
\* calls progress_callback, which is progress.emit
WorkerFile ==
  /\ running > 0
  /\ MoreFiles(vcf_worker_thread.done, vcf_worker_thread.file_count)
  /\ \E written \in BOOLEAN :
       vcf_worker_thread' =
         [vcf_worker_thread EXCEPT
            !.done = @ + 1,
            !.failed = IF written THEN @ ELSE @ + 1]
  /\ signals' =
       Append(signals,
              [signal |-> "progress",
               value |-> Percent(vcf_worker_thread.done,
                                 vcf_worker_thread.file_count)])
  /\ emitted' = Append(emitted, "progress")
  /\ UNCHANGED <<generate_vcf_btn, progress_bar, modal, running>>
  /\ UNCHANGED vcf_stats_label
  /\ UNCHANGED apiVars

\* run(): the directory chosen is gone and cannot be made again, so
\* generate_vcf_files returns its error record before the first file;
\* finished.emit(result) is the last statement of run()
WorkerMakedirsFails ==
  /\ running > 0
  /\ emitted = <<>>
  /\ signals' =
       Append(signals, [signal |-> "finished", result |-> MakedirsError])
  /\ emitted' = Append(emitted, "finished")
  /\ running' = running - 1
  /\ UNCHANGED <<generate_vcf_btn, progress_bar, modal, vcf_worker_thread>>
  /\ UNCHANGED vcf_stats_label
  /\ UNCHANGED apiVars

\* run(): generate_vcf_files returned; finished.emit(result) is the last
\* statement of run()
WorkerFinished ==
  /\ running > 0
  /\ ~MoreFiles(vcf_worker_thread.done, vcf_worker_thread.file_count)
  /\ signals' =
       Append(signals,
              [signal |-> "finished",
               result |-> ThreadResult(vcf_worker_thread)])
  /\ emitted' = Append(emitted, "finished")
  /\ running' = running - 1
  /\ UNCHANGED <<generate_vcf_btn, progress_bar, modal, vcf_worker_thread>>
  /\ UNCHANGED vcf_stats_label
  /\ UNCHANGED apiVars

\* run(): generate_vcf_files raised an Exception; error.emit(str(e)) is
\* the last statement of run()
WorkerError ==
  /\ running > 0
  /\ signals' = Append(signals, [signal |-> "error", error_msg |-> "str(e)"])
  /\ emitted' = Append(emitted, "error")
  /\ running' = running - 1
  /\ UNCHANGED <<generate_vcf_btn, progress_bar, modal, vcf_worker_thread>>
  /\ UNCHANGED vcf_stats_label
  /\ UNCHANGED apiVars

\* the slot on_vcf_progress
OnVcfProgress ==
  /\ signals # <<>>
  /\ Head(signals).signal = "progress"
  /\ progress_bar' = [progress_bar EXCEPT !.value = Head(signals).value]
  /\ signals' = Tail(signals)
  /\ UNCHANGED <<generate_vcf_btn, modal, vcf_worker_thread, running,
                 emitted>>
  /\ UNCHANGED vcf_stats_label
  /\ UNCHANGED apiVars

\* the slot on_vcf_generated up to its message box, which only a result
\* with success opens; without it the slot runs to its end
OnVcfGenerated ==
  /\ signals # <<>>
  /\ Head(signals).signal = "finished"
  /\ modal \notin MessageBoxes
  /\ progress_bar' = [progress_bar EXCEPT !.visible = FALSE]
  /\ IF Head(signals).result.success
     THEN /\ vcf_stats_label' =
               [text |-> "success",
                files_created |-> Head(signals).result.files_created]
          /\ modal' = "information"
          /\ UNCHANGED generate_vcf_btn
     ELSE /\ vcf_stats_label' = [text |-> "failed", files_created |-> 0]
          /\ generate_vcf_btn' = TRUE
          /\ UNCHANGED modal
  /\ signals' = Tail(signals)
  /\ UNCHANGED <<vcf_worker_thread, running, emitted>>
  /\ UNCHANGED apiVars

\* the slot on_vcf_generation_error up to its message box
OnVcfGenerationError ==
  /\ signals # <<>>
  /\ Head(signals).signal = "error"
  /\ modal \notin MessageBoxes
  /\ progress_bar' = [progress_bar EXCEPT !.visible = FALSE]
  /\ modal' = "critical"
  /\ signals' = Tail(signals)
  /\ UNCHANGED <<generate_vcf_btn, vcf_worker_thread, running, emitted>>
  /\ UNCHANGED vcf_stats_label
  /\ UNCHANGED apiVars

\* the message box is closed and the slot that opened it goes on:
\* generate_vcf_btn.setEnabled(True)
CloseMessageBox ==
  /\ modal \in MessageBoxes
  /\ generate_vcf_btn' = TRUE
  /\ modal' = "none"
  /\ UNCHANGED <<progress_bar, vcf_worker_thread, running, signals, emitted>>
  /\ UNCHANGED vcf_stats_label
  /\ UNCHANGED apiVars

WindowNext ==
  \/ ClickGenerate
  \/ CloseDirectoryDialog
  \/ WorkerMakedirsFails
  \/ WorkerFile
  \/ WorkerFinished
  \/ WorkerError
  \/ OnVcfProgress
  \/ OnVcfGenerated
  \/ OnVcfGenerationError
  \/ CloseMessageBox

\* the window of main_window.py and its worker thread
WindowSpec == Init /\ [][WindowNext]_vars

(***************************************************************************)
(* Vocabulary of the properties.                                            *)
(***************************************************************************)
Range(list) == {list[i] : i \in 1..Len(list)}

IsDigit(ch) == ch \in 48..57

\* carrier names in the order get_carrier_name consults their lists
CarrierOrder == <<"mobile", "unicom", "telecom", "virtual">>

CarrierList(c) ==
  CASE c = "mobile" -> Range(mobile_prefixes)
    [] c = "unicom" -> Range(unicom_prefixes)
    [] c = "telecom" -> Range(telecom_prefixes)
    [] c = "virtual" -> Range(virtual_prefixes)

DisplayName(c) ==
  CASE c = "mobile" -> ChinaMobile
    [] c = "unicom" -> ChinaUnicom
    [] c = "telecom" -> ChinaTelecom
    [] c = "virtual" -> VirtualOperator

\* a number generate_phone_number returned and that is still at hand
Generated == ~phone.raised /\ phone.value # <<>>

InPhoneCall == op = "generate_phone_number"
InPhoneBatch == op = "generate_phone_numbers"

\* the numbers the running or last phone call has produced so far
Produced ==
  (IF Generated THEN {phone.value} ELSE {}) \cup Range(phone_numbers)

StartsWith(s, p) == Len(s) >= Len(p) /\ SubSeq(s, 1, Len(p)) = p

NoDuplicates(list) ==
  \A i, j \in 1..Len(list) : i # j => list[i] # list[j]

Surnames == Range(xing)

GivenNames ==
  Range(boy2) \cup Range(boy1) \cup Range(girl2) \cup Range(girl1)

\* surname-table entry immediately followed by one given-name fragment
IsFullName(s) ==
  \E k \in 1..Len(s) :
    /\ SubSeq(s, 1, k) \in Surnames
    /\ SubSeq(s, k + 1, Len(s)) \in GivenNames

(***************************************************************************)
(* C1: every number generate_phone_number returns, alone or inside a batch, *)
(* has exactly 11 characters, all decimal digits, and its first 3 or first  *)
(* 4 characters are an entry of the full prefix list.                       *)
(***************************************************************************)
C1_WellFormedNumber ==
  Generated =>
    /\ Len(phone.value) = 11
    /\ \A i \in 1..Len(phone.value) : IsDigit(phone.value[i])
    /\ \/ SubSeq(phone.value, 1, 3) \in Range(prefixes)
       \/ SubSeq(phone.value, 1, 4) \in Range(prefixes)

\* a number drawn from the full list with the 4-character prefix 1440
C1_Witness ==
  /\ InPhoneCall
  /\ status = "returned"
  /\ prefix = None
  /\ carrier = "all"
  /\ Len(phone.value) = 11
  /\ SubSeq(phone.value, 1, 4) = Str(1440)

(***************************************************************************)
(* C2: with a supported prefix p, every number generate_phone_numbers       *)
(* produces starts with p, whatever the carrier argument is.                *)
(***************************************************************************)
C2_PrefixWins ==
  (InPhoneBatch /\ Truthy(prefix) /\ prefix \in Range(prefixes)) =>
    \A n \in Produced : StartsWith(n, prefix)

\* a full batch with prefix 138 (a China Mobile prefix) and carrier unicom
C2_Witness ==
  /\ InPhoneBatch
  /\ status = "returned"
  /\ prefix = Str(138)
  /\ carrier = "unicom"
  /\ count = 2
  /\ Len(phone_numbers) = 2

(***************************************************************************)
(* C3: with no prefix and carrier one of mobile, unicom, telecom, virtual,  *)
(* the first three characters of every number produced are an entry of that *)
(* carrier's list and of no other carrier's list.                           *)
(***************************************************************************)
C3_CarrierPrefix ==
  ((InPhoneCall \/ InPhoneBatch) /\ ~Truthy(prefix) /\ carrier \in Carriers)
    => \A n \in Produced :
         /\ Len(n) >= 3
         /\ SubSeq(n, 1, 3) \in CarrierList(carrier)
         /\ \A other \in Carriers \ {carrier} :
              SubSeq(n, 1, 3) \notin CarrierList(other)

\* a virtual-operator number with the last prefix of that list, 162
C3_Witness ==
  /\ InPhoneCall
  /\ status = "returned"
  /\ prefix = None
  /\ carrier = "virtual"
  /\ Generated
  /\ SubSeq(phone.value, 1, 3) = Str(162)

(***************************************************************************)
(* C4, as claimed: whenever a prefix other than None is supplied and is not *)
(* in the full prefix list, generate_phone_number raises and returns no     *)
(* number, and generate_phone_numbers with count >= 1 raises on its first   *)
(* attempt, with no retry and nothing collected.                            *)
(***************************************************************************)
C4_RaisesUnlessNone ==
  (prefix # None /\ prefix \notin Range(prefixes)) =>
    /\ (InPhoneCall /\ Ended) => (status = "raised" /\ ~Generated)
    /\ (InPhoneBatch /\ count >= 1 /\ calls >= 1) =>
         /\ status = "raised"
         /\ calls = 1
         /\ attempts = 0
         /\ phone_numbers = <<>>

(***************************************************************************)
(* C4, amended: the same for every non-empty prefix; the empty string is    *)
(* treated like None and a prefix is drawn at random.                       *)
(***************************************************************************)
C4_RaisesUnlessEmpty ==
  /\ (Truthy(prefix) /\ prefix \notin Range(prefixes)) =>
       /\ (InPhoneCall /\ Ended) => (status = "raised" /\ ~Generated)
       /\ (InPhoneBatch /\ count >= 1 /\ calls >= 1) =>
            /\ status = "raised"
            /\ calls = 1
            /\ attempts = 0
            /\ phone_numbers = <<>>
  /\ ((InPhoneCall \/ InPhoneBatch) /\ status = "raised") =>
       (Truthy(prefix) /\ prefix \notin Range(prefixes))

\* a batch of 2 with the unsupported prefix 144 raised on its first call
C4_Witness ==
  /\ InPhoneBatch
  /\ status = "raised"
  /\ prefix = Str(144)
  /\ count = 2
  /\ calls = 1
  /\ phone_numbers = <<>>

(***************************************************************************)
(* C5: with unique=True, at every step of the loop and on return, the list  *)
(* phone_numbers holds no number twice, is never longer than count, and     *)
(* generated_set is exactly the set of its elements.                        *)
(***************************************************************************)
C5_UniqueLoopInvariant ==
  (InPhoneBatch /\ unique /\ count >= 1) =>
    /\ NoDuplicates(phone_numbers)
    /\ Len(phone_numbers) <= count
    /\ generated_set = Range(phone_numbers)

\* a repeated number was drawn and discarded before the batch filled up
C5_Witness ==
  /\ InPhoneBatch
  /\ unique
  /\ status = "returned"
  /\ count = 2
  /\ Len(phone_numbers) = 2
  /\ attempts > 2

(***************************************************************************)
(* C6: generate_phone_numbers makes at most count * 10 calls of the         *)
(* single-number generator and then ends: while it runs it can always take  *)
(* a step, and every step either ends the call or adds one to attempts,     *)
(* which never exceeds count * 10.  When the cap is reached with fewer than *)
(* count numbers collected, the step that follows returns the shorter list, *)
(* it does not raise.                                                       *)
(***************************************************************************)
C6_CappedTermination ==
  /\ [](InPhoneBatch => calls <= (IF count > 0 THEN count * 10 ELSE 0))
  /\ []((InPhoneBatch /\ status = "running") =>
          ENABLED (PhoneNumbersStep \/ PhoneNumbersReturn))
  /\ [][(InPhoneBatch /\ status = "running") =>
          \/ status' \in {"returned", "raised"}
          \/ /\ status' = "running"
             /\ attempts' = attempts + 1
             /\ attempts' <= count * 10]_vars
  /\ [][(/\ InPhoneBatch
         /\ status = "running"
         /\ attempts = count * 10
         /\ Len(phone_numbers) < count)
        => (status' = "returned" /\ phone_numbers' = phone_numbers)]_vars

\* the cap was reached: 20 calls gave one distinct number, which is returned
C6_Witness ==
  /\ InPhoneBatch
  /\ status = "returned"
  /\ unique
  /\ count = 2
  /\ calls = 20
  /\ Len(phone_numbers) = 1

(***************************************************************************)
(* C7: with unique=False and a supported or absent prefix, the call returns *)
(* exactly count numbers after exactly count generator calls when           *)
(* count >= 1, repeated numbers included, and the empty list for            *)
(* count <= 0.                                                              *)
(***************************************************************************)
C7_ExactCount ==
  (InPhoneBatch /\ ~PrefixRejected(prefix)) =>
    /\ (~unique /\ count >= 1) =>
         /\ status # "raised"
         /\ calls = Len(phone_numbers)
         /\ calls = attempts
         /\ status = "running" => Len(phone_numbers) <= count
         /\ status = "returned" => Len(phone_numbers) = count
    /\ count <= 0 =>
         (status = "returned" /\ phone_numbers = <<>> /\ calls = 0)

\* a returned list of two equal numbers
C7_Witness ==
  /\ InPhoneBatch
  /\ ~unique
  /\ status = "returned"
  /\ count = 2
  /\ Len(phone_numbers) = 2
  /\ phone_numbers[1] = phone_numbers[2]

(***************************************************************************)
(* C8: get_carrier_name decides by the first 3 characters alone: the        *)
(* display name of the first list, in the order mobile, unicom, telecom,    *)
(* virtual, that holds them; the unknown-carrier value when none does; the  *)
(* unknown value for None, the empty string and fewer than 3 characters.    *)
(***************************************************************************)
C8_FirstThreeDecide ==
  op = "get_carrier_name" =>
    IF phone_number = None \/ Len(phone_number) < 3
    THEN carrier_name = Unknown
    ELSE LET first3 == SubSeq(phone_number, 1, 3)
             holds(k) == first3 \in CarrierList(CarrierOrder[k])
         IN  /\ \A k \in 1..Len(CarrierOrder) :
                  (holds(k) /\ \A j \in 1..(k - 1) : ~holds(j)) =>
                    carrier_name = DisplayName(CarrierOrder[k])
             /\ (\A k \in 1..Len(CarrierOrder) : ~holds(k)) =>
                  carrier_name = UnknownCarrier

\* a generated number with the 4-character prefix 1440, looked up by 144
C8_Witness ==
  /\ op = "get_carrier_name"
  /\ Generated
  /\ phone_number = phone.value
  /\ SubSeq(phone_number, 1, 4) = Str(1440)
  /\ carrier_name = UnknownCarrier

(***************************************************************************)
(* C9: round trip: a number generated with carrier C in mobile, unicom,     *)
(* telecom, virtual and no explicit prefix is named C's display name by     *)
(* get_carrier_name.                                                        *)
(***************************************************************************)
C9_RoundTrip ==
  (/\ op = "get_carrier_name"
   /\ Generated
   /\ phone_number = phone.value
   /\ ~Truthy(prefix)
   /\ carrier \in Carriers)
  => carrier_name = DisplayName(carrier)

\* a telecom number, named China Telecom
C9_Witness ==
  /\ op = "get_carrier_name"
  /\ Generated
  /\ phone_number = phone.value
  /\ prefix = None
  /\ carrier = "telecom"
  /\ carrier_name = ChinaTelecom

(***************************************************************************)
(* C10: for count >= 0 and gender boy, girl or all, generate_names returns  *)
(* exactly count strings (none for count <= 0) and never raises, and every  *)
(* string is a surname-table entry immediately followed by one given-name   *)
(* fragment.                                                                *)
(***************************************************************************)
C10_NamesCountAndShape ==
  /\ (op = "generate_names" /\ gender \in Genders) =>
       /\ status # "raised"
       /\ status = "returned" =>
            Len(names) = (IF num > 0 THEN num ELSE 0)
       /\ \A i \in 1..Len(names) : IsFullName(names[i])
  /\ (op = "make_name" /\ status = "returned") => IsFullName(name)

\* two names for gender all, the first with a two-character surname and a
\* two-character given name
C10_Witness ==
  /\ op = "generate_names"
  /\ status = "returned"
  /\ gender = "all"
  /\ num = 2
  /\ Len(names) = 2
  /\ Len(names[1]) = 4
  /\ SubSeq(names[1], 1, 2) \in Surnames

(***************************************************************************)
(* Vocabulary of the properties of VCFGenerator.                            *)
(***************************************************************************)
InBatch == op = "generate_vcf_files"

\* the batch got past the creation of the directory
PastMakedirs == InBatch /\ output_dir_exists

\* naming_mode is one of the two documented values
NamedMode == naming_mode \in {"timestamp", "custom_number"}

\* the calls of one kind the batch has made so far
Events(kind) == SelectSeq(trace, LAMBDA e : e.ev = kind)

Writes == Events("create_vcf_file")

Reports == Events("progress_callback")

PathsOf(events, written) ==
  LET chosen == SelectSeq(events, LAMBDA e : e.ok = written)
  IN  [k \in 1..Len(chosen) |-> chosen[k].path]

Min(a, b) == IF a < b THEN a ELSE b

\* the positions of the newlines of a text
Breaks(text) == {k \in 1..Len(text) : text[k] = 10}

\* the position of the j-th newline, 0 for j = 0
Break(text, j) ==
  IF j = 0 THEN 0
  ELSE CHOOSE e \in Breaks(text) :
         Cardinality({b \in Breaks(text) : b < e}) = j - 1

\* the lines of a text, each without the newline that ends it
LinesOf(text) ==
  [j \in 1..Cardinality(Breaks(text)) |->
     SubSeq(text, Break(text, j - 1) + 1, Break(text, j) - 1)]

\* m >= 0 in decimal digits, at least three of them
ThreeDigits(m) ==
  IF m < 10 THEN <<48, 48>> \o Str(m)
  ELSE IF m < 100 THEN <<48>> \o Str(m)
  ELSE Str(m)

\* "20261101_115959", the second the calls start at
CallTime ==
  <<50, 48, 50, 54, 49, 49, 48, 49, 95, 49, 49, 53, 57, 53, 57>>

\* "vcf_output/" and the default prefix followed by "_"
PathStart ==
  <<118, 99, 102, 95, 111, 117, 116, 112, 117, 116, 47, 36890, 35759, 24405,
    95>>

RECURSIVE BlocksIn(_)
\* the VCARD blocks in the files of a list of paths
BlocksIn(paths) ==
  IF paths = <<>> THEN 0 ELSE disk[Head(paths)] + BlocksIn(Tail(paths))

(***************************************************************************)
(* C11: generate_contacts returns the empty list for count <= 0; otherwise  *)
(* the length of the list is the smaller of the number of names and the     *)
(* number of phones the generators produced, it is at most count, and the   *)
(* i-th element is the pair of the i-th name and the i-th phone.            *)
(***************************************************************************)
C11_ContactsZipped ==
  ((op = "generate_contacts" /\ status = "returned") \/ InBatch) =>
    IF count <= 0 THEN contacts = <<>>
    ELSE /\ Len(contacts) = Min(Len(names), Len(phone_numbers))
         /\ Len(contacts) <= count
         /\ \A k \in 1..Len(contacts) :
              contacts[k] = <<names[k], phone_numbers[k]>>

\* two names and, the cap being reached, one phone: one contact, made of
\* the first name and that phone
C11_Witness ==
  /\ op = "generate_contacts"
  /\ status = "returned"
  /\ count = 2
  /\ Len(names) = 2
  /\ names[1] # names[2]
  /\ Len(phone_numbers) = 1
  /\ contacts = <<<<names[1], phone_numbers[1]>>>>

(***************************************************************************)
(* C12: for a name of at least one character and a phone of 11 digits,      *)
(* create_contact_vcf_entry returns seven lines, each ended by a newline:   *)
(* BEGIN:VCARD, VERSION:3.0, FN: and the name, N: and the first character   *)
(* of the name, a semicolon, the rest of the name and three semicolons,     *)
(* TEL;CELL: and the phone, TEL;CELL;TYPE=VOICE: and the phone in groups of *)
(* 3, 4 and 4 digits separated by single spaces, END:VCARD.  The text is    *)
(* determined by the name and the phone.                                    *)
(***************************************************************************)
C12_EntryTemplate ==
  (/\ op = "create_contact_vcf_entry"
   /\ Len(name) >= 1
   /\ Len(phone.value) = 11
   /\ \A k \in 1..Len(phone.value) : IsDigit(phone.value[k]))
  => /\ vcf_entry[Len(vcf_entry)] = 10
     /\ LinesOf(vcf_entry) =
          <<BeginVcard,
            Version,
            FullNameField \o name,
            NameField \o <<name[1]>> \o Semicolon \o Tail(name)
              \o NameFieldEnd,
            TelCell \o phone.value,
            TelCellVoice \o SubSeq(phone.value, 1, 3) \o Space
              \o SubSeq(phone.value, 4, 7) \o Space
              \o SubSeq(phone.value, 8, 11),
            EndVcard>>

\* the entry of a name of one character: nothing stands between the
\* semicolons of its N line
C12_Witness ==
  /\ op = "create_contact_vcf_entry"
  /\ Len(name) = 1
  /\ Len(phone.value) = 11
  /\ Len(LinesOf(vcf_entry)) = 7
  /\ LinesOf(vcf_entry)[4] = NameField \o name \o <<59, 59, 59, 59>>

(***************************************************************************)
(* C13: when output_dir does not exist and cannot be created,               *)
(* generate_vcf_files returns, it does not raise, a record with success     *)
(* False, files_created 0 and an error message; no contacts were generated, *)
(* no file write was attempted and progress_callback was not invoked.       *)
(***************************************************************************)
C13_MakedirsFailure ==
  (InBatch /\ ~output_dir_exists) =>
    /\ status = "returned"
    /\ result.success = FALSE
    /\ result.files_created = 0
    /\ Len(result.error) > Len(ErrorPrefix)
    /\ trace = <<>>
    /\ contacts = <<>>
    /\ names = <<>>
    /\ calls = 0
    /\ created_files = <<>>
    /\ failed_files = <<>>
    /\ disk = <<>>

\* a batch of two files with a progress callback ended that way
C13_Witness ==
  /\ InBatch
  /\ ~output_dir_exists
  /\ status = "returned"
  /\ file_count = 2
  /\ contacts_per_file = 2
  /\ progress_callback
  /\ result = MakedirsError

(***************************************************************************)
(* C14: a failed write does not abort the batch.  With naming_mode          *)
(* timestamp or custom_number the files are attempted in index order,       *)
(* whatever became of the earlier ones, and all file_count of them before   *)
(* the call returns; failed_files holds the paths of the failed writes and  *)
(* created_files those of the others; success is true if and only if        *)
(* failed_files is empty.                                                   *)
(***************************************************************************)
C14_FailuresDoNotAbort ==
  (PastMakedirs /\ NamedMode) =>
    /\ status # "raised"
    /\ \A k \in 1..Len(Writes) : Writes[k].file = k - 1
    /\ failed_files = PathsOf(Writes, FALSE)
    /\ created_files = PathsOf(Writes, TRUE)
    /\ status = "returned" =>
         /\ Len(Writes) = file_count
         /\ result.failed_files = failed_files
         /\ result.success <=> (failed_files = <<>>)

\* the first of two writes failed, the second was made and succeeded
C14_Witness ==
  /\ PastMakedirs
  /\ status = "returned"
  /\ file_count = 2
  /\ Len(Writes) = 2
  /\ ~Writes[1].ok
  /\ Writes[2].ok
  /\ ~result.success
  /\ Len(result.failed_files) = 1

(***************************************************************************)
(* C15: with a progress callback and the directory available, the batch     *)
(* repeats, file by file, generate_contacts, create_vcf_file,               *)
(* progress_callback: the k-th report follows the k-th write attempt,       *)
(* failed or not, and precedes all work on the next file.  The values       *)
(* reported never decrease and lie in 0..100; when the call returns         *)
(* file_count >= 0 reports were made and the last one was 100.  The same    *)
(* holds of the value of every file of every file count up to the largest   *)
(* the window offers: it is in 0..100, not below the value of the file      *)
(* before, and 100 for the last file.                                       *)
(***************************************************************************)
C15_ProgressPerFile ==
  /\ (PastMakedirs /\ NamedMode /\ progress_callback) =>
       /\ \A k \in 1..Len(trace) :
            /\ trace[k].file = (k - 1) \div 3
            /\ trace[k].ev =
                 <<"generate_contacts", "create_vcf_file",
                   "progress_callback">>[((k - 1) % 3) + 1]
       /\ \A k \in 1..Len(Reports) :
            /\ Reports[k].value \in 0..100
            /\ k > 1 => Reports[k - 1].value <= Reports[k].value
       /\ status = "returned" =>
            /\ Len(Reports) = file_count
            /\ file_count > 0 => Reports[file_count].value = 100
  /\ op = "progress_callback" =>
       \A k \in 1..Len(Reports) :
         /\ Reports[k].value \in 0..100
         /\ Reports[k].file > 0 =>
              Percent(Reports[k].file - 1, file_count) <= Reports[k].value
         /\ Reports[k].file + 1 = file_count => Reports[k].value = 100

\* two files, the write of the first failed: the reports were 50 and 100
C15_Witness ==
  /\ PastMakedirs
  /\ progress_callback
  /\ status = "returned"
  /\ file_count = 2
  /\ Len(Writes) = 2
  /\ ~Writes[1].ok
  /\ Len(Reports) = 2
  /\ Reports[1].value = 50
  /\ Reports[2].value = 100

(***************************************************************************)
(* C16, as claimed: the value reported after file i of file_count files is  *)
(* (i + 1) / file_count * 100 rounded to the nearest integer.               *)
(***************************************************************************)
C16_RoundedPercent ==
  \A k \in 1..Len(Reports) :
    LET exact == 100 * (Reports[k].file + 1)
        error == Reports[k].value * file_count - exact
    IN  2 * error <= file_count /\ -2 * error <= file_count

(***************************************************************************)
(* C16, amended: the value reported is int() of the float                   *)
(* (i + 1) / file_count * 100, the percentage cut off towards zero: when    *)
(* the exact percentage is no whole number, the whole number below it (66   *)
(* after the second of three files), and when it is a whole number, that    *)
(* number or, where the float product falls short of it, one less (57       *)
(* after file 29 of 50).                                                    *)
(***************************************************************************)
C16_TruncatedPercent ==
  \A k \in 1..Len(Reports) :
    LET exact == 100 * (Reports[k].file + 1)
        below == exact \div file_count
    IN  IF exact % file_count = 0
        THEN Reports[k].value \in {below - 1, below}
        ELSE Reports[k].value = below

\* 66 was reported after the second of three files
C16_Witness ==
  /\ file_count = 3
  /\ Len(Reports) >= 1
  /\ Reports[Len(Reports)].file = 1
  /\ Reports[Len(Reports)].value = 66

(***************************************************************************)
(* C17: in the timestamp mode the timestamp is taken once, when the call    *)
(* starts, and does not change while the batch runs, whatever the clock     *)
(* does; file i is named prefix, "_", that timestamp, "_", i + 1 in at      *)
(* least three digits, ".vcf".                                              *)
(***************************************************************************)
C17_TimestampNames ==
  /\ []((PastMakedirs /\ naming_mode = "timestamp") =>
          /\ timestamp = CallTime
          /\ \A k \in 1..Len(Writes) :
               Writes[k].path =
                 PathStart \o CallTime \o <<95>> \o ThreeDigits(k)
                   \o <<46, 118, 99, 102>>)
  /\ [][(InBatch /\ status = "running") => timestamp' = timestamp]_vars

\* the clock moved on during the batch, and the second file still bears
\* the time of the call
C17_Witness ==
  /\ PastMakedirs
  /\ naming_mode = "timestamp"
  /\ status = "returned"
  /\ now > ClockStart
  /\ timestamp # strftime(now)
  /\ Len(Writes) = 2
  /\ Writes[2].path =
       PathStart \o CallTime \o <<95, 48, 48, 50, 46, 118, 99, 102>>

(***************************************************************************)
(* C18: in the custom_number mode file i is named prefix, "_",              *)
(* start_number + i in the chosen format, ".vcf": the numbers are           *)
(* consecutive from start_number on, with at least three digits for {:03d}  *)
(* (005, 006, 007 from 5) and as they are for {:d} (5, 6, 7), whatever the  *)
(* clock shows and whichever earlier writes failed.                         *)
(***************************************************************************)
C18_CustomNumberNames ==
  (PastMakedirs /\ naming_mode = "custom_number") =>
    \A k \in 1..Len(Writes) :
      LET m == start_number + k - 1
          digits == IF number_format = "{:03d}" THEN ThreeDigits(m)
                    ELSE Str(m)
      IN  /\ Writes[k].path = PathStart \o digits \o <<46, 118, 99, 102>>
          /\ (start_number = 5 /\ number_format = "{:03d}") =>
               digits = <<48, 48, 52 + k>>
          /\ (start_number = 5 /\ number_format = "{:d}") =>
               digits = <<52 + k>>

\* from 5 in three digits, the first write failed and a second passed:
\* the second file is named ..._006.vcf
C18_Witness ==
  /\ PastMakedirs
  /\ naming_mode = "custom_number"
  /\ start_number = 5
  /\ number_format = "{:03d}"
  /\ now > ClockStart
  /\ Len(Writes) = 2
  /\ ~Writes[1].ok
  /\ Writes[2].path = PathStart \o <<48, 48, 54, 46, 118, 99, 102>>

(***************************************************************************)
(* C19: the record returned after the loop, for file_count >= 0, has        *)
(* files_created + files_failed = file_count, files_created and             *)
(* files_failed the lengths of created_files and failed_files, no path in   *)
(* both lists, and total_contacts = files_created * contacts_per_file.      *)
(***************************************************************************)
C19_ResultCounts ==
  (PastMakedirs /\ status = "returned") =>
    /\ result.files_created + result.files_failed = file_count
    /\ result.files_created = Len(result.created_files)
    /\ result.files_failed = Len(result.failed_files)
    /\ Range(result.created_files) \cap Range(result.failed_files) = {}
    /\ result.total_contacts = result.files_created * contacts_per_file

\* one file of two failed: one file and two contacts are reported
C19_Witness ==
  /\ PastMakedirs
  /\ status = "returned"
  /\ file_count = 2
  /\ contacts_per_file = 2
  /\ result.files_created = 1
  /\ result.files_failed = 1
  /\ result.total_contacts = 2

EntriesOf(pairs) ==
  Join([k \in 1..Len(pairs) |->
          create_contact_vcf_entry(pairs[k][1], pairs[k][2]) \o NewLine])

\* the call the batch made last
LastEvent == trace[Len(trace)]

\* the entries of the full list a number starts with
PrefixesOf(number) == {p \in Range(prefixes) : StartsWith(number, p)}

\* the carriers whose list holds a prefix
CarriersOf(p) == {c \in Carriers : p \in CarrierList(c)}

\* the paths the batch tried to write, in the order of the attempts
Attempted == [k \in 1..Len(Writes) |-> Writes[k].path]

\* how often a value occurs in a list
Occurrences(list, v) == Cardinality({k \in 1..Len(list) : list[k] = v})

\* the path the naming branch gives file j under the arguments of the call
PathOfFile(j) ==
  path_join(OutputDir,
            IF naming_mode = "custom_number"
            THEN custom_number_filename(start_number, number_format, j)
            ELSE timestamp_filename(timestamp, j))

\* the phones of a contact list
PhonesOf(pairs) == [k \in 1..Len(pairs) |-> pairs[k][2]]

\* the phones of a text: what follows TEL;CELL: on its lines
CellLines(text) ==
  LET cells == SelectSeq(LinesOf(text), LAMBDA l : StartsWith(l, TelCell))
  IN  [k \in 1..Len(cells) |-> Drop(cells[k], Len(TelCell))]

\* the signals that end a run of the thread
Terminal == {"finished", "error"}

\* the positions of the ending signals in a list of signal names
TerminalsOf(names_) == {k \in 1..Len(names_) : names_[k] \in Terminal}

\* an ending signal is queued for the window
PendingTerminal == \E k \in 1..Len(signals) : signals[k].signal \in Terminal

\* a thread was created
Started == vcf_worker_thread # NoThread

(***************************************************************************)
(* C21: with file_count = 0 and the directory available the batch writes    *)
(* nothing, calls neither generate_contacts nor progress_callback, does not *)
(* raise whatever the naming mode, and returns success=True with            *)
(* files_created, files_failed and total_contacts all 0.                    *)
(***************************************************************************)
C21_NoFiles ==
  (PastMakedirs /\ file_count = 0) =>
    /\ status # "raised"
    /\ trace = <<>>
    /\ disk = <<>>
    /\ created_files = <<>>
    /\ failed_files = <<>>
    /\ status = "returned" =>
         /\ result.success
         /\ result.files_created = 0
         /\ result.files_failed = 0
         /\ result.total_contacts = 0

\* no file was asked for, with a progress callback and two contacts per file
C21_Witness ==
  /\ PastMakedirs
  /\ status = "returned"
  /\ file_count = 0
  /\ contacts_per_file = 2
  /\ progress_callback
  /\ result.success
  /\ result.files_created = 0

(***************************************************************************)
(* C22, as claimed: the four carrier lists partition the full list: no      *)
(* prefix is in two carrier lists, every entry of a carrier list is in the  *)
(* full list, every entry of the full list is in exactly one carrier list,  *)
(* and the size get_statistics reports for the full list is the sum of the  *)
(* four sizes it reports for the carrier lists.                             *)
(***************************************************************************)
C22_PrefixPartition ==
  op = "get_statistics" =>
    /\ \A c, d \in Carriers :
         c # d => CarrierList(c) \cap CarrierList(d) = {}
    /\ \A c \in Carriers : CarrierList(c) \subseteq Range(prefixes)
    /\ \A p \in Range(statistics.supported) : Cardinality(CarriersOf(p)) = 1
    /\ statistics.total =
         statistics.mobile + statistics.unicom + statistics.telecom
           + statistics.virtual

(***************************************************************************)
(* C23: the text preview_vcf_content returns for its contact list is the    *)
(* text create_vcf_file writes for the same list: every entry, in order,    *)
(* followed by one newline.  The preview writes no file and is empty for    *)
(* count <= 0; a file the batch has just written holds the same             *)
(* concatenation for its contacts.                                          *)
(***************************************************************************)
C23_PreviewIsFileText ==
  /\ op = "preview_vcf_content" =>
       /\ status = "returned"
       /\ preview_content = EntriesOf(contacts)
       /\ preview_content = FileText(contacts)
       /\ count <= 0 => preview_content = <<>>
       /\ disk = <<>>
       /\ file_text = <<>>
       /\ trace = <<>>
       /\ ~output_dir_exists
  /\ (InBatch /\ trace # <<>> /\ LastEvent.ev = "create_vcf_file"
        /\ LastEvent.ok)
     => file_text = EntriesOf(contacts)

\* a preview of two contacts: two VCARD blocks
C23_Witness ==
  /\ op = "preview_vcf_content"
  /\ count = 2
  /\ Len(contacts) = 2
  /\ BlockCount(preview_content) = 2

(***************************************************************************)
(* C24: with unique=True and count >= 1 every draw that is made is added at *)
(* the end of the list if it is not yet in it and dropped otherwise, and no *)
(* draw is made once count numbers are collected or count * 10 draws were   *)
(* made; the returned list has at least one element and has fewer than      *)
(* count elements if and only if count * 10 draws were made and they held   *)
(* fewer than count distinct values.                                        *)
(***************************************************************************)
C24_FirstOccurrences ==
  /\ [][(/\ InPhoneBatch
         /\ unique
         /\ count >= 1
         /\ status = "running"
         /\ attempts' = attempts + 1)
        => /\ Len(phone_numbers) < count
           /\ attempts < count * 10
           /\ phone_numbers' =
                IF phone'.value \in Range(phone_numbers) THEN phone_numbers
                ELSE Append(phone_numbers, phone'.value)]_vars
  /\ []((InPhoneBatch /\ unique /\ count >= 1 /\ status = "returned") =>
          /\ Len(phone_numbers) >= 1
          /\ Len(phone_numbers) < count <=>
               (/\ attempts = count * 10
                /\ Cardinality(Range(phone_numbers)) < count))

\* the second distinct number came with the last draw the cap allows
C24_Witness ==
  /\ InPhoneBatch
  /\ unique
  /\ status = "returned"
  /\ count = 2
  /\ attempts = 20
  /\ Len(phone_numbers) = 2
  /\ phone.value = phone_numbers[2]

(***************************************************************************)
(* C25: a number generated from the full list, with an explicit prefix or   *)
(* without a carrier, starts with exactly one entry of the full list.  If   *)
(* that entry is not 1440, get_carrier_name gives the display name of the   *)
(* carrier whose list holds the entry; if it is 1440 the number is named by *)
(* its first three characters 144, which are in no list: the unknown        *)
(* carrier, and no carrier's display name.                                  *)
(***************************************************************************)
C25_ClassifiedExcept1440 ==
  (/\ op = "get_carrier_name"
   /\ Generated
   /\ phone_number = phone.value
   /\ (Truthy(prefix) \/ carrier \notin Carriers))
  => /\ Cardinality(PrefixesOf(phone_number)) = 1
     /\ \A p \in PrefixesOf(phone_number) :
          IF p = Str(1440)
          THEN /\ CarriersOf(Str(144)) = {}
               /\ carrier_name = UnknownCarrier
               /\ \A c \in Carriers : carrier_name # DisplayName(c)
          ELSE /\ Cardinality(CarriersOf(p)) = 1
               /\ \A c \in CarriersOf(p) : carrier_name = DisplayName(c)

\* the explicit prefix 1440, with carrier mobile: named the unknown carrier
C25_Witness ==
  /\ op = "get_carrier_name"
  /\ Generated
  /\ phone_number = phone.value
  /\ prefix = Str(1440)
  /\ carrier = "mobile"
  /\ carrier_name = UnknownCarrier

(***************************************************************************)
(* C26: at most one run() of a worker thread is in progress.  The button is *)
(* disabled while a run is in progress, while its finished or error signal  *)
(* waits for its slot and while the slot waits for its message box.  A      *)
(* thread is started only from the directory dialog, with a directory, and  *)
(* the step that starts it disables the button; closing the dialog without  *)
(* a directory starts nothing and leaves the button enabled.  A run emits   *)
(* at most one of finished and error, as its last signal, and exactly one   *)
(* by its end.  Once the slot of that signal has run the button is enabled. *)
(***************************************************************************)
C26_OneWorker ==
  /\ [](running <= 1)
  /\ []((running > 0 \/ PendingTerminal \/ modal \in MessageBoxes)
          => ~generate_vcf_btn)
  /\ [](Started => vcf_worker_thread.output_dir # <<>>)
  /\ [][running' > running =>
          /\ modal = "getExistingDirectory"
          /\ running = 0
          /\ ~generate_vcf_btn'
          /\ vcf_worker_thread'.output_dir # <<>>]_vars
  /\ [][(modal = "getExistingDirectory" /\ modal' # modal
           /\ running' = running)
        => /\ generate_vcf_btn'
           /\ vcf_worker_thread' = vcf_worker_thread
           /\ signals' = signals]_vars
  /\ [](TerminalsOf(emitted) \subseteq {Len(emitted)})
  /\ [](running > 0 => TerminalsOf(emitted) = {})
  /\ []((Started /\ running = 0) => TerminalsOf(emitted) = {Len(emitted)})
  /\ []((running = 0 /\ signals = <<>> /\ modal = "none")
          => generate_vcf_btn)

\* a run of two files ended with finished after its two progress signals,
\* its slots have run and the button is enabled again
C26_Witness ==
  /\ Started
  /\ running = 0
  /\ signals = <<>>
  /\ modal = "none"
  /\ generate_vcf_btn
  /\ emitted = <<"progress", "progress", "finished">>

(***************************************************************************)
(* C27: with unique_phones=True no file of a batch holds a phone number     *)
(* twice, and generated_set holds the numbers of the file at hand only: it  *)
(* starts empty with every file, so a number of an earlier file may come    *)
(* again in a later one.                                                    *)
(***************************************************************************)
C27_UniquePerFile ==
  (PastMakedirs /\ unique_phones) =>
    /\ NoDuplicates(PhonesOf(contacts))
    /\ (pc = "progress_callback" /\ LastEvent.ok) =>
         CellLines(file_text) = PhonesOf(contacts)
    /\ (trace # <<>> /\ contacts_per_file >= 1) =>
         /\ generated_set = Range(phone_numbers)
         /\ Range(PhonesOf(contacts)) \subseteq generated_set

\* the first file of two contacts is written and the contacts of the
\* second file are at hand: two again, one of them a number of the first
\* file
C27_Witness ==
  /\ PastMakedirs
  /\ unique_phones
  /\ pc = "create_vcf_file"
  /\ file_index = 1
  /\ Len(created_files) = 1
  /\ Len(CellLines(file_text)) = 2
  /\ Len(contacts) = 2
  /\ Range(PhonesOf(contacts)) \cap Range(CellLines(file_text)) # {}

(***************************************************************************)
(* C28, as claimed: with file_count >= 1 and any naming_mode other than     *)
(* custom_number the batch does not raise: it names its files by the        *)
(* timestamp scheme and returns a result.                                   *)
(***************************************************************************)
C28_FallbackNaming ==
  (PastMakedirs /\ naming_mode # "custom_number" /\ file_count >= 1) =>
    /\ status # "raised"
    /\ \A k \in 1..Len(Writes) :
         Writes[k].path = path_join(OutputDir,
                                    timestamp_filename(CallTime, k - 1))

(***************************************************************************)
(* C29: for a gender other than boy, girl and all, generate_names returns   *)
(* the empty list without raising, generate_contacts and the preview get no *)
(* contacts, and the batch writes files of zero VCARD blocks while its      *)
(* result still has total_contacts = files_created * contacts_per_file.     *)
(***************************************************************************)
C29_UnknownGender ==
  gender \notin Genders =>
    /\ op \in {"generate_contacts", "preview_vcf_content"} =>
         /\ status = "returned"
         /\ names = <<>>
         /\ contacts = <<>>
    /\ (PastMakedirs /\ NamedMode) =>
         /\ status # "raised"
         /\ names = <<>>
         /\ contacts = <<>>
         /\ file_text = <<>>
         /\ \A k \in 1..Len(created_files) : disk[created_files[k]] = 0
         /\ status = "returned" =>
              result.total_contacts
                = result.files_created * contacts_per_file

\* two files of no VCARD block, reported as four contacts
C29_Witness ==
  /\ PastMakedirs
  /\ gender = "unknown"
  /\ status = "returned"
  /\ contacts_per_file = 2
  /\ result.files_created = 2
  /\ result.total_contacts = 4
  /\ \A k \in 1..2 : disk[created_files[k]] = 0

(***************************************************************************)
(* C30: in both naming modes, with either number format, the paths a batch  *)
(* tries to write are pairwise distinct, each of them is once in            *)
(* created_files or failed_files and in no other place of the two lists,    *)
(* and the files on disk are those of created_files, one per entry.  The    *)
(* path of a file differs from the path of every other loop index, also     *)
(* beyond index 999.                                                        *)
(***************************************************************************)
C30_DistinctPaths ==
  /\ (PastMakedirs /\ NamedMode) =>
       /\ NoDuplicates(Attempted)
       /\ \A k \in 1..Len(Attempted) :
            Occurrences(created_files \o failed_files, Attempted[k]) = 1
       /\ Range(created_files \o failed_files) = Range(Attempted)
       /\ DOMAIN disk = Range(created_files)
       /\ Cardinality(DOMAIN disk) = Len(created_files)
  /\ op = "filepath" =>
       \A j \in FileIndexes \cup {file_index + 1} :
         j # file_index => PathOfFile(j) # filepath

\* file 1001 of a batch named by timestamp: its number has four digits
C30_Witness ==
  /\ op = "filepath"
  /\ naming_mode = "timestamp"
  /\ file_index = 1000
  /\ filepath = PathStart \o CallTime \o <<95>> \o Str(1001) \o Extension

====
